---- MODULE Spec2Model ----
(***************************************************************************)
(* A model of autark's platform classifier (utils/platform.go), of the     *)
(* "doctor" command (commands/doctor.go) and of the "setup" command        *)
(* (commands/setup.go).                                                     *)
(*                                                                          *)
(* The host is what the program observes through exec.LookPath, os.Getuid, *)
(* /etc/os-release, net.Listen, the operator's answers and the exit status *)
(* of the external commands it runs.  The invocations of doctor and of the *)
(* install procedures are recorded in `log`, in program order; of          *)
(* checkFirewall and checkSSH the log holds the call and its result, and   *)
(* the listens of generateRandomPort are kept in `failedDraws`.            *)
(***************************************************************************)
EXTENDS Integers, Sequences, FiniteSets, TLC

VARIABLES
    goos,          \* runtime.GOOS of the build
    goarch,        \* runtime.GOARCH of the build
    osRelease,     \* what parseOSRelease("/etc/os-release") yields: [err, ID, ID_LIKE]
    path,          \* the package-manager executables exec.LookPath resolves
    platform,      \* the PlatformInfo held by the AppContext
    probes,        \* the CommandExists calls made by DetectPlatform, in order
    ppc,           \* position inside DetectPlatform
    uidRoot,       \* os.Getuid() == 0
    repair,        \* DoctorOptions.Repair
    pc,            \* position inside runDoctor, runSetup or generateRandomPort
    results,       \* the DoctorResult of each check made so far
    issues,        \* runDoctor's local `issues`
    repairErrors,  \* runDoctor's local `repairErrors`
    proc,          \* the docker install procedure in progress
    step,          \* the next step of `proc`
    exitCode,      \* the exit status of the process once pc = "done"
    outcomes,      \* the result of each repair runDoctor attempted, in order
    log,           \* the calls and external invocations of the command, in order
    opts,          \* SetupOptions: RegistryPort, NoFirewall, NoSSH
    suggestedPort, \* what generateRandomPort returned
    sshPort,       \* what PromptPort returned
    container,     \* the container named autark-registry on the host
    stdout,        \* the status lines runSetup has written, in order
    attempt,       \* the loop counter i of generateRandomPort
    failedDraws,   \* the drawn ports whose last check by generateRandomPort failed
    portHolder,    \* who holds the chosen SSH port since isTCPPortAvailable(sshPort)
    sshdConfig,    \* the lines of /etc/ssh/sshd_config
    host,          \* what an earlier setup run has left of firewall and SSH server
    release,       \* the lines of a release-metadata file and what parseOSRelease made of them
    installer,     \* install.sh: AUTARK_PKG_MGR of its environment, PKG_MGR, its probes
    prompt         \* a call of PromptYesNo on its own: its default, the lines read, its result

platformVars == <<goos, goarch, osRelease, path, platform, probes, ppc>>
doctorVars == <<uidRoot, repair, pc, results, issues, repairErrors, proc, step, exitCode,
                outcomes, log>>
setupVars == <<opts, suggestedPort, sshPort, container, stdout,
               attempt, failedDraws, portHolder, sshdConfig, host, release,
          installer, prompt>>
vars == <<goos, goarch, osRelease, path, platform, probes, ppc,
          uidRoot, repair, pc, results, issues, repairErrors, proc, step, exitCode,
          outcomes, log,
          opts, suggestedPort, sshPort, container, stdout,
          attempt, failedDraws, portHolder, sshdConfig, host, release,
          installer, prompt>>

None == "none"
\* no install procedure is in progress
NoProc == [name |-> None, steps |-> <<>>]
\* /etc/os-release cannot be opened: parseOSRelease returns an error
Absent == [err |-> TRUE, ID |-> "", ID_LIKE |-> <<>>]
\* /etc/os-release is opened and a read fails after the line ID=debian: the
\* scanner's error is returned with the map filled so far
Unreadable == [err |-> TRUE, ID |-> "debian", ID_LIKE |-> <<>>]

(***************************************************************************)
(* Bounds                                                                  *)
(***************************************************************************)
\* the largest number of package-manager executables installed on one host
MaxInstalled == 2

\* the largest number of lines of an sshd_config that is rewritten
MaxLines == 3

(***************************************************************************)
(* utils/platform.go                                                       *)
(***************************************************************************)
\* values of runtime.GOARCH
GoArchs == {"amd64", "arm64"}

\* values of runtime.GOOS: those of the switch of DetectPlatform and one more
GoosNames == {"linux", "darwin", "windows", "freebsd", "netbsd", "openbsd", "dragonfly", "plan9"}

\* the executables DetectPlatform may look up
ManagerExecutables == {"apt-get", "dnf", "pacman", "zypper", "apk", "emerge", "xbps-install",
                       "snap", "flatpak", "brew", "port", "pkg", "winget", "choco"}

\* the PackageManager value assigned when the executable `exe` is found
ManagerOf(exe) == IF exe = "apt-get" THEN "apt" ELSE exe

CommandExists(name, p) == name \in p

\* strings.Contains on strings given as sequences of characters
Contains(s, sub) ==
    \E i \in 1..(Len(s) - Len(sub) + 1) : SubSeq(s, i, i + Len(sub) - 1) = sub

\* a mutation of FamilyOf: the derivatives of Ubuntu and of RHEL are not in
\* the table
FamilyOfWithoutDerivatives(id, idLike) ==
    CASE id = "debian" -> "debian"
      [] id = "ubuntu" -> "ubuntu"
      [] id = "fedora" -> "fedora"
      [] id = "rhel" -> "rhel"
      [] id = "centos" -> "centos"
      [] id \in {"arch", "manjaro", "endeavouros", "garuda", "artix"} -> "arch"
      [] id = "alpine" -> "alpine"
      [] id \in {"opensuse", "opensuse-leap", "opensuse-tumbleweed", "sles"} -> "opensuse"
      [] id = "gentoo" -> "gentoo"
      [] id = "void" -> "void"
      [] OTHER ->
            IF Contains(idLike, <<"d","e","b","i","a","n">>) \/ Contains(idLike, <<"u","b","u","n","t","u">>)
            THEN "debian"
            ELSE IF Contains(idLike, <<"f","e","d","o","r","a">>) \/ Contains(idLike, <<"r","h","e","l">>)
            THEN "fedora"
            ELSE IF Contains(idLike, <<"a","r","c","h">>)
            THEN "arch"
            ELSE IF Contains(idLike, <<"s","u","s","e">>)
            THEN "opensuse"
            ELSE "unknown"

\* a mutation of FamilyOf: an ID_LIKE that names ubuntu gives the ubuntu family
FamilyOfUbuntuLike(id, idLike) ==
    CASE id = "debian" -> "debian"
      [] id \in {"ubuntu", "linuxmint", "pop", "elementary", "zorin", "kali", "raspbian", "neon"} -> "ubuntu"
      [] id = "fedora" -> "fedora"
      [] id \in {"rhel", "rocky", "almalinux", "ol", "amzn"} -> "rhel"
      [] id = "centos" -> "centos"
      [] id \in {"arch", "manjaro", "endeavouros", "garuda", "artix"} -> "arch"
      [] id = "alpine" -> "alpine"
      [] id \in {"opensuse", "opensuse-leap", "opensuse-tumbleweed", "sles"} -> "opensuse"
      [] id = "gentoo" -> "gentoo"
      [] id = "void" -> "void"
      [] OTHER ->
            IF Contains(idLike, <<"u","b","u","n","t","u">>)
            THEN "ubuntu"
            ELSE IF Contains(idLike, <<"d","e","b","i","a","n">>)
            THEN "debian"
            ELSE IF Contains(idLike, <<"f","e","d","o","r","a">>) \/ Contains(idLike, <<"r","h","e","l">>)
            THEN "fedora"
            ELSE IF Contains(idLike, <<"a","r","c","h">>)
            THEN "arch"
            ELSE IF Contains(idLike, <<"s","u","s","e">>)
            THEN "opensuse"
            ELSE "unknown"

\* the switch of detectLinuxDistro on ID, with its ID_LIKE default branch
FamilyOf(id, idLike) ==
    CASE id = "debian" -> "debian"
      [] id \in {"ubuntu", "linuxmint", "pop", "elementary", "zorin", "kali", "raspbian", "neon"} -> "ubuntu"
      [] id = "fedora" -> "fedora"
      [] id \in {"rhel", "rocky", "almalinux", "ol", "amzn"} -> "rhel"
      [] id = "centos" -> "centos"
      [] id \in {"arch", "manjaro", "endeavouros", "garuda", "artix"} -> "arch"
      [] id = "alpine" -> "alpine"
      [] id \in {"opensuse", "opensuse-leap", "opensuse-tumbleweed", "sles"} -> "opensuse"
      [] id = "gentoo" -> "gentoo"
      [] id = "void" -> "void"
      [] OTHER ->
            IF Contains(idLike, <<"d","e","b","i","a","n">>) \/ Contains(idLike, <<"u","b","u","n","t","u">>)
            THEN "debian"
            ELSE IF Contains(idLike, <<"f","e","d","o","r","a">>) \/ Contains(idLike, <<"r","h","e","l">>)
            THEN "fedora"
            ELSE IF Contains(idLike, <<"a","r","c","h">>)
            THEN "arch"
            ELSE IF Contains(idLike, <<"s","u","s","e">>)
            THEN "opensuse"
            ELSE "unknown"

\* a mutation of detectLinuxDistro: the error of parseOSRelease is not looked at
detectLinuxDistroIgnoresError(osr) ==
    [LinuxDistro |-> FamilyOf(osr.ID, osr.ID_LIKE), LinuxDistroID |-> osr.ID]

\* detectLinuxDistro: the fields it leaves in the PlatformInfo
detectLinuxDistro(osr) ==
    IF osr.err
    THEN [LinuxDistro |-> "unknown", LinuxDistroID |-> ""]
    ELSE [LinuxDistro |-> FamilyOf(osr.ID, osr.ID_LIKE), LinuxDistroID |-> osr.ID]

\* an if / else-if chain of CommandExists calls: the first executable found wins
RECURSIVE FirstExisting(_, _, _)
FirstExisting(chain, p, i) ==
    IF i > Len(chain)
    THEN [pm |-> "unknown", probes |-> chain]
    ELSE IF CommandExists(chain[i], p)
         THEN [pm |-> ManagerOf(chain[i]), probes |-> SubSeq(chain, 1, i)]
         ELSE FirstExisting(chain, p, i + 1)

LinuxFallbackChain ==
    <<"apt-get", "dnf", "pacman", "zypper", "apk", "emerge", "xbps-install", "snap", "flatpak">>

\* a mutation of detectLinuxPackageManagerFallback: snap and flatpak are tried
\* first
detectLinuxPackageManagerFallbackSnapFirst(p) ==
    FirstExisting(<<"snap", "flatpak", "apt-get", "dnf", "pacman", "zypper", "apk", "emerge",
                    "xbps-install">>, p, 1)

detectLinuxPackageManagerFallback(p) == FirstExisting(LinuxFallbackChain, p, 1)

\* the executable probed for a recognized family; "" for the default branch
CanonicalExecutable(distro) ==
    CASE distro \in {"debian", "ubuntu"} -> "apt-get"
      [] distro \in {"fedora", "rhel", "centos"} -> "dnf"
      [] distro = "arch" -> "pacman"
      [] distro = "alpine" -> "apk"
      [] distro = "opensuse" -> "zypper"
      [] distro = "gentoo" -> "emerge"
      [] distro = "void" -> "xbps-install"
      [] OTHER -> ""

detectLinuxPackageManager(distro, p) ==
    IF CanonicalExecutable(distro) # ""
    THEN FirstExisting(<<CanonicalExecutable(distro)>>, p, 1)
    ELSE detectLinuxPackageManagerFallback(p)

detectDarwinPackageManager(p) == FirstExisting(<<"brew", "port">>, p, 1)

detectWindowsPackageManager(p) == FirstExisting(<<"winget", "choco">>, p, 1)

detectBSDPackageManager(p) == FirstExisting(<<"pkg">>, p, 1)

\* a mutation of OSOf: of the BSD names only freebsd is in the switch
OSOfOnlyFreeBSD(g) ==
    CASE g = "linux" -> "linux"
      [] g = "darwin" -> "darwin"
      [] g = "windows" -> "windows"
      [] g = "freebsd" -> "freebsd"
      [] OTHER -> "unknown"

\* the switch of DetectPlatform on runtime.GOOS
OSOf(g) ==
    CASE g = "linux" -> "linux"
      [] g = "darwin" -> "darwin"
      [] g = "windows" -> "windows"
      [] g \in {"freebsd", "netbsd", "openbsd", "dragonfly"} -> "freebsd"
      [] OTHER -> "unknown"

\* the PlatformInfo DetectPlatform starts from
InitialInfo(arch) ==
    [OS |-> "unknown", Arch |-> arch, LinuxDistro |-> "unknown", LinuxDistroID |-> "",
     PackageManager |-> "unknown"]

\* DetectPlatform as a whole: the PlatformInfo it returns and the probes it made
DetectPlatform(g, arch, osr, p) ==
    LET d == IF g = "linux" THEN detectLinuxDistro(osr)
             ELSE [LinuxDistro |-> "unknown", LinuxDistroID |-> ""]
        m == CASE OSOf(g) = "linux" -> detectLinuxPackageManager(d.LinuxDistro, p)
               [] OSOf(g) = "darwin" -> detectDarwinPackageManager(p)
               [] OSOf(g) = "windows" -> detectWindowsPackageManager(p)
               [] OSOf(g) = "freebsd" -> detectBSDPackageManager(p)
               [] OTHER -> [pm |-> "unknown", probes |-> <<>>]
    IN [info |-> [OS |-> OSOf(g), Arch |-> arch, LinuxDistro |-> d.LinuxDistro,
                  LinuxDistroID |-> d.LinuxDistroID, PackageManager |-> m.pm],
        probes |-> m.probes]

(***************************************************************************)
(* The hosts the classifier is run on                                      *)
(***************************************************************************)
DistroIDs ==
    {"debian", "ubuntu", "linuxmint", "pop", "elementary", "zorin", "kali", "raspbian", "neon",
     "fedora", "rhel", "rocky", "almalinux", "ol", "amzn", "centos",
     "arch", "manjaro", "endeavouros", "garuda", "artix", "alpine",
     "opensuse", "opensuse-leap", "opensuse-tumbleweed", "sles", "gentoo", "void",
     "nixos", ""}

IdLikes ==
    { <<>>,
      <<"d","e","b","i","a","n">>,
      <<"u","b","u","n","t","u"," ","d","e","b","i","a","n">>,
      <<"r","h","e","l"," ","f","e","d","o","r","a">>,
      <<"a","r","c","h">>,
      <<"s","u","s","e"," ","o","p","e","n","s","u","s","e">>,
      <<"a","r","c","h"," ","s","u","s","e">>,
      <<"r","h","e","l"," ","d","e","b","i","a","n">>,
      <<"g","e","n","t","o","o">> }

OsReleases == {Absent, Unreadable} \cup [err : {FALSE}, ID : DistroIDs, ID_LIKE : IdLikes]

Paths == {p \in SUBSET ManagerExecutables : Cardinality(p) <= MaxInstalled}

(***************************************************************************)
(* Specification of the classifier: DetectPlatform step by step            *)
(***************************************************************************)
\* the sshd_config of a host before setup: the port is commented out
DefaultConfig ==
    <<<<"#","P","o","r","t"," ","2","2">>,
      <<"P","e","r","m","i","t","R","o","o","t","L","o","g","i","n"," ","n","o">>>>

\* PromptYesNo is not called on its own
NotPrompting == [defaultYes |-> FALSE, read |-> <<>>, done |-> FALSE, value |-> FALSE]

\* install.sh is not run, and AUTARK_PKG_MGR is not set
NotInstalling == [AUTARK_PKG_MGR |-> "", PKG_MGR |-> "", probes |-> <<>>, pc |-> "idle"]

\* no release-metadata file has been given to parseOSRelease
NotRead == [lines |-> <<>>, err |-> FALSE, parsed |-> FALSE, result |-> [k \in {} |-> <<>>]]

\* no setup has run on the host before: nothing is known of its services
FirstRun == [ran |-> FALSE, firewall |-> "unknown", ssh |-> "unknown"]

\* runSetup has not been entered
SetupIdle ==
    /\ opts = [RegistryPort |-> 0, NoFirewall |-> FALSE, NoSSH |-> FALSE]
    /\ suggestedPort = 0 /\ sshPort = 0
    /\ container = [out |-> <<>>, hostPort |-> 0]
    /\ stdout = <<>> /\ attempt = 0 /\ failedDraws = {}
    /\ portHolder = "nobody"
    /\ sshdConfig = DefaultConfig
    /\ host = FirstRun
    /\ release = NotRead
    /\ installer = NotInstalling
    /\ prompt = NotPrompting

DoctorIdle ==
    /\ uidRoot = FALSE /\ repair = FALSE /\ pc = "idle" /\ results = <<>>
    /\ issues = 0 /\ repairErrors = 0 /\ proc = NoProc /\ step = 0
    /\ exitCode = 0 /\ outcomes = <<>> /\ log = <<>>

InitPlatform ==
    /\ goos \in GoosNames
    /\ goarch \in GoArchs
    /\ osRelease \in (IF goos = "linux" THEN OsReleases ELSE {Absent})
    /\ path \in Paths
    /\ platform = InitialInfo(goarch)
    /\ probes = <<>>
    /\ ppc = "start"
    /\ DoctorIdle
    /\ SetupIdle

\* DetectPlatform: the switch on runtime.GOOS sets OS
DetectOS ==
    /\ ppc = "start"
    /\ platform' = [platform EXCEPT !.OS = OSOf(goos)]
    /\ ppc' = CASE OSOf(goos) = "linux" -> "distro"
                [] OSOf(goos) = "unknown" -> "done"
                [] OTHER -> "pkgmgr"
    /\ UNCHANGED <<goos, goarch, osRelease, path, probes>>
    /\ UNCHANGED doctorVars
    /\ UNCHANGED setupVars

DetectLinuxDistro ==
    /\ ppc = "distro"
    /\ platform' = [platform EXCEPT !.LinuxDistro = detectLinuxDistro(osRelease).LinuxDistro,
                                    !.LinuxDistroID = detectLinuxDistro(osRelease).LinuxDistroID]
    /\ ppc' = "pkgmgr"
    /\ UNCHANGED <<goos, goarch, osRelease, path, probes>>
    /\ UNCHANGED doctorVars
    /\ UNCHANGED setupVars

\* the detect*PackageManager call of the OS: PackageManager changes only when
\* an executable was found
DetectPackageManager(os, found) ==
    /\ ppc = "pkgmgr"
    /\ platform.OS = os
    /\ platform' = [platform EXCEPT !.PackageManager =
                        IF found.pm # "unknown" THEN found.pm ELSE @]
    /\ probes' = probes \o found.probes
    /\ ppc' = "done"
    /\ UNCHANGED <<goos, goarch, osRelease, path>>
    /\ UNCHANGED doctorVars
    /\ UNCHANGED setupVars

DetectLinuxPackageManager ==
    DetectPackageManager("linux", detectLinuxPackageManager(platform.LinuxDistro, path))

DetectDarwinPackageManager ==
    DetectPackageManager("darwin", detectDarwinPackageManager(path))

DetectWindowsPackageManager ==
    DetectPackageManager("windows", detectWindowsPackageManager(path))

DetectBSDPackageManager ==
    DetectPackageManager("freebsd", detectBSDPackageManager(path))

NextPlatform ==
    \/ DetectOS
    \/ DetectLinuxDistro
    \/ DetectLinuxPackageManager
    \/ DetectDarwinPackageManager
    \/ DetectWindowsPackageManager
    \/ DetectBSDPackageManager

SpecPlatform == InitPlatform /\ [][NextPlatform]_vars

(***************************************************************************)
(* commands/doctor.go                                                      *)
(***************************************************************************)
\* one entry of `log`: op is "Call" (a procedure is entered), "Return" (a check
\* returns), "IsRoot", "LookPath", "Run" (exec.Cmd.Run or CombinedOutput),
\* "Start" (exec.Cmd.Start), "ReadFile", "WriteFile", "Listen" (net.Listen),
\* "PromptYesNo" or "PromptPort"; by is the function making the call; idx is the
\* position of the step in an install sequence, 0 elsewhere
Ev(op, cmd, ok, by, idx) == [op |-> op, cmd |-> cmd, ok |-> ok, by |-> by, idx |-> idx]

\* utils.IsRoot: os.Getuid() == 0, and on Windows the exit status of `net session`
IsRootResults == IF goos = "windows" THEN BOOLEAN ELSE {uidRoot}

\* what a `--version` run may print, after strings.TrimSpace
VersionOutputs == {"", "version 1.0"}

\* a mutation of checkRootPrivileges: the check passes without privileges
checkRootPrivilegesAlwaysPasses(isRoot) ==
    [Name |-> "root/admin privileges", Installed |-> TRUE,
     Version |-> IF goos = "windows" THEN "administrator" ELSE "root", Error |-> ""]

\* checkRootPrivileges(): utils.IsRoot decides the result
checkRootPrivileges(isRoot) ==
    IF isRoot
    THEN [Name |-> "root/admin privileges", Installed |-> TRUE,
          Version |-> IF goos = "windows" THEN "administrator" ELSE "root", Error |-> ""]
    ELSE [Name |-> "root/admin privileges", Installed |-> FALSE, Version |-> "",
          Error |-> IF goos = "windows" THEN "not running as administrator"
                    ELSE "not running as root"]

\* checkGit and checkDocker: the result for a tool that exists or not, whose
\* `--version` run succeeded or not and printed out
checkTool(name, exists, runOk, out) ==
    IF ~exists THEN [Name |-> name, Installed |-> FALSE, Version |-> "", Error |-> ""]
    ELSE IF ~runOk THEN [Name |-> name, Installed |-> FALSE, Version |-> "", Error |-> "exit status 1"]
    ELSE [Name |-> name, Installed |-> TRUE, Version |-> out, Error |-> ""]

\* the log entries of checkGit and checkDocker
checkToolLog(name, by, exists, runOk) ==
    IF exists
    THEN <<Ev("LookPath", name, TRUE, by, 0), Ev("Run", name \o " --version", runOk, by, 0)>>
    ELSE <<Ev("LookPath", name, FALSE, by, 0)>>

DockerInfo(running) == Ev("Run", "docker info", running, "isDockerDaemonRunning", 0)

rootResult == results[1]
gitResult == results[2]
dockerResult == results[3]
dockerDaemonResult == results[4]

\* a mutation of CountIssues: the first result is not counted
CountIssuesSkipsFirst(rs) == Cardinality({i \in 2..Len(rs) : ~rs[i].Installed})

\* the loop of runDoctor that counts the results that are not installed
CountIssues(rs) == Cardinality({i \in 1..Len(rs) : ~rs[i].Installed})

\* repairGit: the command run for the package manager, "" when it returns an
\* error without running anything
GitInstallCommand(pm) ==
    CASE pm = "apt" -> "sh -c apt-get update -qq && apt-get install -y -qq git"
      [] pm = "dnf" -> "dnf install -y -q git"
      [] pm = "pacman" -> "pacman -Sy --noconfirm git"
      [] pm = "apk" -> "apk add --quiet git"
      [] pm = "zypper" -> "zypper install -y -q git"
      [] pm = "emerge" -> "emerge --quiet dev-vcs/git"
      [] pm = "xbps-install" -> "xbps-install -y git"
      [] pm = "snap" -> "snap install git"
      [] pm = "flatpak" -> ""
      [] pm = "brew" -> "brew install git"
      [] pm = "port" -> "port install git"
      [] pm = "pkg" -> "pkg install -y git"
      [] pm = "winget" -> "winget install --id Git.Git -e --silent"
      [] pm = "choco" -> "choco install git -y"
      [] OTHER -> ""

Run(cmd) == [op |-> "Run", cmd |-> cmd]

installDockerAlpine ==
    [name |-> "installDockerAlpine",
     steps |-> <<Run("apk add docker docker-cli containerd"),
                 Run("rc-update add docker boot"),
                 Run("service docker start")>>]

installDockerArch ==
    [name |-> "installDockerArch",
     steps |-> <<Run("pacman -Sy --noconfirm docker docker-compose"),
                 Run("systemctl enable --now docker")>>]

\* the package-manager fallback: only snap runs a command
installDockerByPackageManager(pm) ==
    [name |-> "installDockerByPackageManager",
     steps |-> IF pm = "snap" THEN <<Run("snap install docker")>> ELSE <<>>]

\* the three command loops with the key download, the codename lookup and the
\* write of docker.list between them
installDockerDebian(distro) ==
    [name |-> "installDockerDebian",
     steps |-> <<Run("apt-get update -qq"),
                 Run("apt-get install -y -qq ca-certificates curl gnupg"),
                 Run("install -m 0755 -d /etc/apt/keyrings"),
                 Run(IF distro = "ubuntu"
                     THEN "curl -fsSL https://download.docker.com/linux/ubuntu/gpg -o /etc/apt/keyrings/docker.asc"
                     ELSE "curl -fsSL https://download.docker.com/linux/debian/gpg -o /etc/apt/keyrings/docker.asc"),
                 [op |-> "ReadFile", cmd |-> "/etc/os-release VERSION_CODENAME"],
                 [op |-> "WriteFile", cmd |-> "/etc/apt/sources.list.d/docker.list"],
                 Run("apt-get update -qq"),
                 Run("apt-get install -y -qq docker-ce docker-ce-cli containerd.io docker-buildx-plugin docker-compose-plugin")>>]

installDockerFedora ==
    [name |-> "installDockerFedora",
     steps |-> <<Run("dnf config-manager addrepo --from-repofile=https://download.docker.com/linux/fedora/docker-ce.repo"),
                 Run("dnf install -y -q docker-ce docker-ce-cli containerd.io docker-buildx-plugin docker-compose-plugin"),
                 Run("systemctl enable --now docker")>>]

installDockerGentoo ==
    [name |-> "installDockerGentoo",
     steps |-> <<Run("emerge --quiet app-containers/docker app-containers/docker-compose"),
                 Run("rc-update add docker default"),
                 Run("service docker start")>>]

installDockerOpenSUSE ==
    [name |-> "installDockerOpenSUSE",
     steps |-> <<Run("zypper install -y docker docker-compose"),
                 Run("systemctl enable --now docker")>>]

installDockerVoid ==
    [name |-> "installDockerVoid",
     steps |-> <<Run("xbps-install -y docker docker-compose"),
                 Run("ln -s /etc/sv/docker /var/service/")>>]

repairDockerLinux(pl) ==
    CASE pl.LinuxDistro \in {"debian", "ubuntu"} -> installDockerDebian(pl.LinuxDistro)
      [] pl.LinuxDistro \in {"fedora", "rhel", "centos"} -> installDockerFedora
      [] pl.LinuxDistro = "arch" -> installDockerArch
      [] pl.LinuxDistro = "alpine" -> installDockerAlpine
      [] pl.LinuxDistro = "opensuse" -> installDockerOpenSUSE
      [] pl.LinuxDistro = "gentoo" -> installDockerGentoo
      [] pl.LinuxDistro = "void" -> installDockerVoid
      [] OTHER -> installDockerByPackageManager(pl.PackageManager)

repairDockerDarwin(pm) ==
    [name |-> "repairDockerDarwin",
     steps |-> CASE pm = "brew" -> <<Run("brew install --cask docker")>>
                 [] pm = "port" -> <<Run("port install docker")>>
                 [] OTHER -> <<>>]

repairDockerWindows(pm) ==
    [name |-> "repairDockerWindows",
     steps |-> CASE pm = "winget" -> <<Run("winget install --id Docker.DockerDesktop -e --silent")>>
                 [] pm = "choco" -> <<Run("choco install docker-desktop -y")>>
                 [] OTHER -> <<>>]

repairDockerBSD(pm) ==
    [name |-> "repairDockerBSD",
     steps |-> IF pm # "pkg" THEN <<>> ELSE <<Run("pkg install -y docker")>>]

\* repairDocker: the procedure selected for the platform; a procedure without
\* steps returns an error without running anything
repairDocker(pl) ==
    CASE pl.OS = "linux" -> repairDockerLinux(pl)
      [] pl.OS = "darwin" -> repairDockerDarwin(pl.PackageManager)
      [] pl.OS = "windows" -> repairDockerWindows(pl.PackageManager)
      [] pl.OS = "freebsd" -> repairDockerBSD(pl.PackageManager)
      [] OTHER -> [name |-> "repairDocker", steps |-> <<>>]

\* the mechanisms of startDockerDaemonLinux that are looked up before they are run
StartMechanisms ==
    <<[exe |-> "systemctl", cmd |-> "systemctl start docker"],
      [exe |-> "rc-service", cmd |-> "rc-service docker start"],
      [exe |-> "service", cmd |-> "service docker start"]>>

(***************************************************************************)
(* The platforms runDoctor is started on: those DetectPlatform returns for *)
(* one id of each family and for an unrecognized id.                       *)
(***************************************************************************)
DoctorOsReleases ==
    {Absent} \cup [err : {FALSE},
                   ID : {"debian", "ubuntu", "fedora", "rhel", "centos", "arch", "alpine",
                         "opensuse", "gentoo", "void", "nixos"},
                   ID_LIKE : {<<>>}]

Init ==
    /\ goos \in GoosNames
    /\ goarch = "amd64"
    /\ \E osr \in (IF goos = "linux" THEN DoctorOsReleases ELSE {Absent}), p \in Paths :
          /\ platform = DetectPlatform(goos, goarch, osr, p).info
          /\ probes = DetectPlatform(goos, goarch, osr, p).probes
    /\ osRelease = Absent
    /\ path = {}
    /\ ppc = "done"
    /\ uidRoot \in (IF goos = "windows" THEN {FALSE} ELSE BOOLEAN)
    /\ repair \in BOOLEAN
    /\ pc = "checkRoot"
    /\ results = <<>>
    /\ issues = 0
    /\ repairErrors = 0
    /\ proc = NoProc
    /\ step = 0
    /\ exitCode = 0
    /\ outcomes = <<>>
    /\ log = <<>>
    /\ SetupIdle

\* os.Exit(code), or the return of runDoctor when code = 0
Exit(code) == exitCode' = code /\ pc' = "done"

\* a repair returned: err # nil counts an error
Returned(target, ok) ==
    /\ outcomes' = Append(outcomes, [target |-> target, ok |-> ok])
    /\ repairErrors' = IF ok THEN repairErrors ELSE repairErrors + 1

CheckRoot ==
    /\ pc = "checkRoot"
    /\ \E r \in IsRootResults :
          /\ results' = Append(results, checkRootPrivileges(r))
          /\ log' = Append(log, Ev("IsRoot", "", r, "checkRootPrivileges", 0))
    /\ pc' = "checkGit"
    /\ UNCHANGED <<uidRoot, repair, issues, repairErrors, proc, step, exitCode, outcomes>>
    /\ UNCHANGED platformVars
    /\ UNCHANGED setupVars

CheckGit ==
    /\ pc = "checkGit"
    /\ \E exists \in BOOLEAN, runOk \in BOOLEAN, out \in VersionOutputs :
          /\ results' = Append(results, checkTool("git", exists, runOk, out))
          /\ log' = log \o checkToolLog("git", "checkGit", exists, runOk)
    /\ pc' = "checkDocker"
    /\ UNCHANGED <<uidRoot, repair, issues, repairErrors, proc, step, exitCode, outcomes>>
    /\ UNCHANGED platformVars
    /\ UNCHANGED setupVars

CheckDocker ==
    /\ pc = "checkDocker"
    /\ \E exists \in BOOLEAN, runOk \in BOOLEAN, out \in VersionOutputs :
          /\ results' = Append(results, checkTool("docker", exists, runOk, out))
          /\ log' = log \o checkToolLog("docker", "checkDocker", exists, runOk)
    /\ pc' = "checkDockerDaemon"
    /\ UNCHANGED <<uidRoot, repair, issues, repairErrors, proc, step, exitCode, outcomes>>
    /\ UNCHANGED platformVars
    /\ UNCHANGED setupVars

\* a mutation of CheckDockerDaemon: the result of checkDocker is not looked at
CheckDockerDaemonAlwaysProbes ==
    /\ pc = "checkDockerDaemon"
    /\ \E running \in BOOLEAN :
          /\ results' = Append(results,
                IF running
                THEN [Name |-> "docker daemon", Installed |-> TRUE,
                      Version |-> "running", Error |-> ""]
                ELSE [Name |-> "docker daemon", Installed |-> FALSE,
                      Version |-> "", Error |-> "not running"])
          /\ log' = Append(log, DockerInfo(running))
    /\ pc' = "count"
    /\ UNCHANGED <<uidRoot, repair, issues, repairErrors, proc, step, exitCode, outcomes>>
    /\ UNCHANGED platformVars
    /\ UNCHANGED setupVars

\* checkDockerDaemon(dockerResult)
CheckDockerDaemon ==
    /\ pc = "checkDockerDaemon"
    /\ \/ /\ ~dockerResult.Installed
          /\ results' = Append(results, [Name |-> "docker daemon", Installed |-> FALSE,
                                         Version |-> "", Error |-> "docker not installed"])
          /\ log' = log
       \/ /\ dockerResult.Installed
          /\ \E running \in BOOLEAN :
                /\ results' = Append(results,
                      IF running
                      THEN [Name |-> "docker daemon", Installed |-> TRUE,
                            Version |-> "running", Error |-> ""]
                      ELSE [Name |-> "docker daemon", Installed |-> FALSE,
                            Version |-> "", Error |-> "not running"])
                /\ log' = Append(log, DockerInfo(running))
    /\ pc' = "count"
    /\ UNCHANGED <<uidRoot, repair, issues, repairErrors, proc, step, exitCode, outcomes>>
    /\ UNCHANGED platformVars
    /\ UNCHANGED setupVars

\* a mutation of Count: the repair flag is not looked at
CountIgnoresRepairFlag ==
    /\ pc = "count"
    /\ issues' = CountIssues(results)
    /\ IF issues' = 0 THEN Exit(0)
       ELSE pc' = "gate" /\ exitCode' = exitCode
    /\ UNCHANGED <<uidRoot, repair, results, repairErrors, proc, step, outcomes, log>>
    /\ UNCHANGED platformVars
    /\ UNCHANGED setupVars

\* the issue count and the two returns that follow it
Count ==
    /\ pc = "count"
    /\ issues' = CountIssues(results)
    /\ IF issues' = 0 THEN Exit(0)
       ELSE IF ~repair THEN Exit(1)
       ELSE pc' = "gate" /\ exitCode' = exitCode
    /\ UNCHANGED <<uidRoot, repair, results, repairErrors, proc, step, outcomes, log>>
    /\ UNCHANGED platformVars
    /\ UNCHANGED setupVars

\* a mutation of PrivilegeGate: the repairs start whatever IsRoot returned
PrivilegeGateIgnoresResult ==
    /\ pc = "gate"
    /\ \E r \in IsRootResults :
          /\ log' = Append(log, Ev("IsRoot", "", r, "runDoctor", 0))
          /\ pc' = "repairGit" /\ exitCode' = exitCode
    /\ UNCHANGED <<uidRoot, repair, results, issues, repairErrors, proc, step, outcomes>>
    /\ UNCHANGED platformVars
    /\ UNCHANGED setupVars

\* the privilege check before the repairs
PrivilegeGate ==
    /\ pc = "gate"
    /\ \E r \in IsRootResults :
          /\ log' = Append(log, Ev("IsRoot", "", r, "runDoctor", 0))
          /\ IF ~r THEN Exit(1) ELSE pc' = "repairGit" /\ exitCode' = exitCode
    /\ UNCHANGED <<uidRoot, repair, results, issues, repairErrors, proc, step, outcomes>>
    /\ UNCHANGED platformVars
    /\ UNCHANGED setupVars

\* a mutation of RepairGit: git is installed whatever its check found
RepairGitUnconditional ==
    /\ pc = "repairGit"
    /\ \/ /\ GitInstallCommand(platform.PackageManager) = ""
          /\ log' = Append(log, Ev("Call", "repairGit", TRUE, "runDoctor", 0))
          /\ Returned("git", FALSE)
       \/ /\ GitInstallCommand(platform.PackageManager) # ""
          /\ \E ok \in BOOLEAN :
                /\ log' = log \o <<Ev("Call", "repairGit", TRUE, "runDoctor", 0),
                                   Ev("Run", GitInstallCommand(platform.PackageManager), ok,
                                      "repairGit", 1)>>
                /\ Returned("git", ok)
    /\ pc' = "repairDocker"
    /\ UNCHANGED <<uidRoot, repair, results, issues, proc, step, exitCode>>
    /\ UNCHANGED platformVars
    /\ UNCHANGED setupVars

\* a mutation of RepairGit: a failed git repair exits at once
RepairGitAbortsOnFailure ==
    /\ pc = "repairGit"
    /\ \/ /\ gitResult.Installed
          /\ pc' = "repairDocker"
          /\ UNCHANGED <<log, outcomes, repairErrors, exitCode>>
       \/ /\ ~gitResult.Installed
          /\ GitInstallCommand(platform.PackageManager) = ""
          /\ log' = Append(log, Ev("Call", "repairGit", TRUE, "runDoctor", 0))
          /\ Returned("git", FALSE)
          /\ Exit(1)
       \/ /\ ~gitResult.Installed
          /\ GitInstallCommand(platform.PackageManager) # ""
          /\ \E ok \in BOOLEAN :
                /\ log' = log \o <<Ev("Call", "repairGit", TRUE, "runDoctor", 0),
                                   Ev("Run", GitInstallCommand(platform.PackageManager), ok,
                                      "repairGit", 1)>>
                /\ Returned("git", ok)
                /\ IF ok THEN pc' = "repairDocker" /\ exitCode' = exitCode ELSE Exit(1)
    /\ UNCHANGED <<uidRoot, repair, results, issues, proc, step>>
    /\ UNCHANGED platformVars
    /\ UNCHANGED setupVars

RepairGit ==
    /\ pc = "repairGit"
    /\ \/ /\ gitResult.Installed
          /\ UNCHANGED <<log, outcomes, repairErrors>>
       \/ /\ ~gitResult.Installed
          /\ GitInstallCommand(platform.PackageManager) = ""
          /\ log' = Append(log, Ev("Call", "repairGit", TRUE, "runDoctor", 0))
          /\ Returned("git", FALSE)
       \/ /\ ~gitResult.Installed
          /\ GitInstallCommand(platform.PackageManager) # ""
          /\ \E ok \in BOOLEAN :
                /\ log' = log \o <<Ev("Call", "repairGit", TRUE, "runDoctor", 0),
                                   Ev("Run", GitInstallCommand(platform.PackageManager), ok,
                                      "repairGit", 1)>>
                /\ Returned("git", ok)
    /\ pc' = "repairDocker"
    /\ UNCHANGED <<uidRoot, repair, results, issues, proc, step, exitCode>>
    /\ UNCHANGED platformVars
    /\ UNCHANGED setupVars

RepairDocker ==
    /\ pc = "repairDocker"
    /\ \/ /\ dockerResult.Installed
          /\ pc' = "ensureDaemon"
          /\ UNCHANGED <<log, outcomes, repairErrors, proc, step>>
       \/ /\ ~dockerResult.Installed
          /\ repairDocker(platform).steps = <<>>
          /\ log' = Append(log, Ev("Call", "repairDocker", TRUE, "runDoctor", 0))
          /\ Returned("docker", FALSE)
          /\ pc' = "ensureDaemon"
          /\ UNCHANGED <<proc, step>>
       \/ /\ ~dockerResult.Installed
          /\ repairDocker(platform).steps # <<>>
          /\ log' = Append(log, Ev("Call", "repairDocker", TRUE, "runDoctor", 0))
          /\ proc' = repairDocker(platform)
          /\ step' = 1
          /\ pc' = "dockerStep"
          /\ UNCHANGED <<outcomes, repairErrors>>
    /\ UNCHANGED <<uidRoot, repair, results, issues, exitCode>>
    /\ UNCHANGED platformVars
    /\ UNCHANGED setupVars

\* a mutation of NextStep: the error of a step is not looked at
NextStepIgnoresFailure(i, n, ok) == IF i < n THEN i + 1 ELSE 0

\* the position after step i of an install sequence of n steps whose outcome
\* was ok: the next step, or 0 when the procedure returns
NextStep(i, n, ok) == IF ok /\ i < n THEN i + 1 ELSE 0

\* one step of the docker install procedure in progress
DockerStep ==
    /\ pc = "dockerStep"
    /\ \E ok \in BOOLEAN :
          /\ log' = Append(log, Ev(proc.steps[step].op, proc.steps[step].cmd, ok, proc.name, step))
          /\ step' = NextStep(step, Len(proc.steps), ok)
          /\ IF step' = 0
             THEN /\ Returned("docker", ok)
                  /\ proc' = NoProc
                  /\ pc' = "ensureDaemon"
             ELSE UNCHANGED <<outcomes, repairErrors, proc, pc>>
    /\ UNCHANGED <<uidRoot, repair, results, issues, exitCode>>
    /\ UNCHANGED platformVars
    /\ UNCHANGED setupVars

\* ensureDockerDaemonRunning up to the call of startDockerDaemon
EnsureDaemon ==
    /\ pc = "ensureDaemon"
    /\ \/ /\ dockerDaemonResult.Installed
          /\ pc' = "finish"
          /\ UNCHANGED <<log, outcomes, repairErrors>>
       \/ /\ ~dockerDaemonResult.Installed
          /\ \E running \in BOOLEAN :
                /\ log' = log \o <<Ev("Call", "ensureDockerDaemonRunning", TRUE, "runDoctor", 0),
                                   DockerInfo(running)>>
                /\ IF running
                   THEN Returned("docker daemon", TRUE) /\ pc' = "finish"
                   ELSE UNCHANGED <<outcomes, repairErrors>> /\ pc' = "startDaemon"
    /\ UNCHANGED <<uidRoot, repair, results, issues, proc, step, exitCode>>
    /\ UNCHANGED platformVars
    /\ UNCHANGED setupVars

\* startDockerDaemon: the switch on the OS, with the Darwin and Windows starts
StartDaemon ==
    /\ pc = "startDaemon"
    /\ \/ /\ platform.OS = "linux"
          /\ step' = 1
          /\ pc' = "startLinux"
          /\ UNCHANGED <<log, outcomes, repairErrors>>
       \/ /\ platform.OS \in {"darwin", "windows"}
          /\ \E ok \in BOOLEAN :
                /\ log' = Append(log,
                      IF platform.OS = "darwin"
                      THEN Ev("Run", "open -a Docker", ok, "startDockerDaemonDarwin", 0)
                      ELSE Ev("Run", "powershell -Command Start-Process Docker Desktop.exe", ok,
                              "startDockerDaemonWindows", 0))
                /\ IF ok
                   THEN UNCHANGED <<outcomes, repairErrors>> /\ pc' = "verifyDaemon"
                   ELSE Returned("docker daemon", FALSE) /\ pc' = "finish"
          /\ step' = step
       \/ /\ platform.OS \notin {"linux", "darwin", "windows"}
          /\ Returned("docker daemon", FALSE)
          /\ pc' = "finish"
          /\ UNCHANGED <<log, step>>
    /\ UNCHANGED <<uidRoot, repair, results, issues, proc, exitCode>>
    /\ UNCHANGED platformVars
    /\ UNCHANGED setupVars

\* a mutation of Started: the error of the run is not looked at
StartedIgnoresError(exists, ok) == exists

\* startDockerDaemonLinux returns nil at a mechanism that exists and whose run
\* returned no error
Started(exists, ok) == exists /\ ok

\* startDockerDaemonLinux: the mechanism at position `step` is looked up and,
\* when found, run; its success returns nil, otherwise the next one is tried
TryMechanism ==
    /\ pc = "startLinux"
    /\ step \in 1..Len(StartMechanisms)
    /\ \E exists \in BOOLEAN, ok \in BOOLEAN :
          /\ log' = log \o
                (IF exists
                 THEN <<Ev("LookPath", StartMechanisms[step].exe, TRUE, "startDockerDaemonLinux", step),
                        Ev("Run", StartMechanisms[step].cmd, ok, "startDockerDaemonLinux", step)>>
                 ELSE <<Ev("LookPath", StartMechanisms[step].exe, FALSE, "startDockerDaemonLinux", step)>>)
          /\ IF Started(exists, ok)
             THEN pc' = "verifyDaemon" /\ step' = 0
             ELSE pc' = pc /\ step' = step + 1
    /\ UNCHANGED <<uidRoot, repair, results, issues, repairErrors, proc, exitCode, outcomes>>
    /\ UNCHANGED platformVars
    /\ UNCHANGED setupVars

\* startDockerDaemonLinux: the last resort, exec.Command("dockerd").Start()
StartDockerd ==
    /\ pc = "startLinux"
    /\ step = Len(StartMechanisms) + 1
    /\ \E ok \in BOOLEAN :
          /\ log' = Append(log, Ev("Start", "dockerd", ok, "startDockerDaemonLinux", step))
          /\ IF ok
             THEN UNCHANGED <<outcomes, repairErrors>> /\ pc' = "verifyDaemon"
             ELSE Returned("docker daemon", FALSE) /\ pc' = "finish"
    /\ step' = 0
    /\ UNCHANGED <<uidRoot, repair, results, issues, proc, exitCode>>
    /\ UNCHANGED platformVars
    /\ UNCHANGED setupVars

\* ensureDockerDaemonRunning after startDockerDaemon returned nil
VerifyDaemon ==
    /\ pc = "verifyDaemon"
    /\ \E running \in BOOLEAN :
          /\ log' = Append(log, Ev("Run", "docker info", running, "isDockerDaemonRunning", 0))
          /\ Returned("docker daemon", running)
    /\ pc' = "finish"
    /\ UNCHANGED <<uidRoot, repair, results, issues, proc, step, exitCode>>
    /\ UNCHANGED platformVars
    /\ UNCHANGED setupVars

\* a mutation of Finish: one failed repair is tolerated
FinishToleratesOne ==
    /\ pc = "finish"
    /\ Exit(IF repairErrors > 1 THEN 1 ELSE 0)
    /\ UNCHANGED <<uidRoot, repair, results, issues, repairErrors, proc, step, outcomes, log>>
    /\ UNCHANGED platformVars
    /\ UNCHANGED setupVars

\* the end of runDoctor: os.Exit(1) when a repair failed
Finish ==
    /\ pc = "finish"
    /\ Exit(IF repairErrors > 0 THEN 1 ELSE 0)
    /\ UNCHANGED <<uidRoot, repair, results, issues, repairErrors, proc, step, outcomes, log>>
    /\ UNCHANGED platformVars
    /\ UNCHANGED setupVars

Next ==
    \/ CheckRoot
    \/ CheckGit
    \/ CheckDocker
    \/ CheckDockerDaemon
    \/ Count
    \/ PrivilegeGate
    \/ RepairGit
    \/ RepairDocker
    \/ DockerStep
    \/ EnsureDaemon
    \/ StartDaemon
    \/ TryMechanism
    \/ StartDockerd
    \/ VerifyDaemon
    \/ Finish

Spec == Init /\ [][Next]_vars

(***************************************************************************)
(* Properties of DetectPlatform and runDoctor                              *)
(***************************************************************************)
IsCall(e) == e.op = "Call"

\* the repair procedures runDoctor entered, in order
Calls == SelectSeq(log, IsCall)

Called(name) == \E i \in DOMAIN log : log[i].op = "Call" /\ log[i].cmd = name

\* an external command that installs or starts something, or a file write:
\* everything but the probes of the checks and `docker info`
IsInstallOrStart(e) ==
    /\ e.op \in {"Run", "Start", "WriteFile"}
    /\ e.by \notin {"checkGit", "checkDocker", "isDockerDaemonRunning"}

\* the privilege check of REPAIR mode was made and returned r
GateReturned(r) == \E i \in DOMAIN log : log[i] = Ev("IsRoot", "", r, "runDoctor", 0)

\* the rank of a repair procedure in the fixed order
Rank(name) ==
    CASE name = "repairGit" -> 1
      [] name = "repairDocker" -> 2
      [] name = "ensureDockerDaemonRunning" -> 3
      [] OTHER -> 0

FailedOutcomes == {i \in DOMAIN outcomes : ~outcomes[i].ok}

\* the targets among git, docker and the daemon whose check failed
FailedTargets == {i \in 2..4 : ~results[i].Installed}

\* C1: in REPAIR mode, once the privilege check before the repairs returned
\* false, the process has exited with code 1 and no repair procedure was
\* entered and no installing or starting command was run, however many checks
\* failed.
C1_NoRepairWithoutPrivilege ==
    GateReturned(FALSE) =>
        /\ pc = "done"
        /\ exitCode = 1
        /\ outcomes = <<>>
        /\ Calls = <<>>
        /\ \A i \in DOMAIN log : ~IsInstallOrStart(log[i])

\* C1 witness: the privilege check failed with git, docker and the daemon all
\* pending repair.
C1_Witness ==
    /\ GateReturned(FALSE)
    /\ repair
    /\ FailedTargets = {2, 3, 4}

\* C2: on Linux the package manager is unknown only if none of the executables
\* of the fallback chain exists on the host, for a recognized family too.
C2_UnknownOnlyIfNoManagerExists ==
    (ppc = "done" /\ platform.OS = "linux" /\ platform.PackageManager = "unknown") =>
        \A i \in DOMAIN LinuxFallbackChain : ~CommandExists(LinuxFallbackChain[i], path)

\* C3: without the repair flag runDoctor enters no repair procedure and runs no
\* installing or starting command, whatever the checks found; it ends after the
\* four checks.
C3_ReportModeRepairsNothing ==
    ~repair =>
        /\ outcomes = <<>>
        /\ Calls = <<>>
        /\ ~GateReturned(TRUE) /\ ~GateReturned(FALSE)
        /\ \A i \in DOMAIN log : ~IsInstallOrStart(log[i])
        /\ pc \in {"checkRoot", "checkGit", "checkDocker", "checkDockerDaemon", "count", "done"}
        /\ (pc = "done" => Len(results) = 4 /\ exitCode \in {0, 1})

\* C3 witness: a run without the repair flag ended with git, docker and the
\* daemon all failing.
C3_Witness ==
    /\ ~repair
    /\ pc = "done"
    /\ FailedTargets = {2, 3, 4}

\* C4: in REPORT mode the exit code is 0 if and only if the issue count is 0,
\* and 1 otherwise, the issue count being the number of the four checks whose
\* result is not installed.
C4_ReportExitCode ==
    (~repair /\ pc = "done") =>
        /\ issues = (IF rootResult.Installed THEN 0 ELSE 1)
                  + (IF gitResult.Installed THEN 0 ELSE 1)
                  + (IF dockerResult.Installed THEN 0 ELSE 1)
                  + (IF dockerDaemonResult.Installed THEN 0 ELSE 1)
        /\ exitCode \in {0, 1}
        /\ (exitCode = 0 <=> issues = 0)

\* C4 witness: a REPORT run where only git is missing exits with code 1.
C4_Witness ==
    /\ ~repair
    /\ pc = "done"
    /\ Len(results) = 4
    /\ rootResult.Installed /\ ~gitResult.Installed
    /\ dockerResult.Installed /\ dockerDaemonResult.Installed
    /\ exitCode = 1

\* the commands that probe a target: the lookup of its executable, its
\* `--version` run and, for the daemon, `docker info`
ProbeCommands(target) ==
    CASE target = "git" -> {"git", "git --version"}
      [] target = "docker" -> {"docker", "docker --version"}
      [] OTHER -> {"docker info"}

\* the procedure that repairs a target
RepairOf(target) ==
    CASE target = "git" -> "repairGit"
      [] target = "docker" -> "repairDocker"
      [] OTHER -> "ensureDockerDaemonRunning"

\* after the repair of the target was entered, a probe of the target succeeded
Reprobed(target) ==
    \E c \in DOMAIN log :
        /\ log[c].op = "Call" /\ log[c].cmd = RepairOf(target)
        /\ \E j \in (c + 1)..Len(log) :
              /\ log[j].op \in {"LookPath", "Run"}
              /\ log[j].cmd \in ProbeCommands(target)
              /\ log[j].ok

\* C5: a repair is recorded as successful only after a probe of its target,
\* made after the repair was entered, confirmed the target.
C5_SuccessOnlyAfterReprobe ==
    \A i \in DOMAIN outcomes : outcomes[i].ok => Reprobed(outcomes[i].target)

\* C6: the repair procedures are entered in the order git, docker, daemon,
\* each at most once and only for a target whose check failed, and only after
\* the privilege check returned true; when the issue count is 0 no repair is
\* entered and the privilege check before the repairs is not made.
C6_RepairsOnlyFailedInOrder ==
    /\ \A i \in DOMAIN Calls :
          /\ Rank(Calls[i].cmd) \in 1..3
          /\ Len(results) = 4
          /\ ~results[Rank(Calls[i].cmd) + 1].Installed
          /\ GateReturned(TRUE)
          /\ \A j \in DOMAIN Calls : i < j => Rank(Calls[i].cmd) < Rank(Calls[j].cmd)
    /\ \A i \in DOMAIN outcomes :
          \E j \in DOMAIN Calls :
              /\ Rank(Calls[j].cmd) + 1 \in FailedTargets
              /\ results[Rank(Calls[j].cmd) + 1].Name = outcomes[i].target
    /\ (pc = "done" /\ issues = 0) =>
          /\ Calls = <<>>
          /\ outcomes = <<>>
          /\ ~GateReturned(TRUE) /\ ~GateReturned(FALSE)
          /\ exitCode = 0

\* C6 witness: with git found by its check, the docker repair and then the
\* daemon start were entered, and the git repair was not.
C6_Witness ==
    /\ pc = "done"
    /\ gitResult.Installed
    /\ Len(Calls) = 2
    /\ Calls[1].cmd = "repairDocker"
    /\ Calls[2].cmd = "ensureDockerDaemonRunning"

\* C7: once runDoctor has ended after the privilege check returned true, the
\* repair of every target whose check failed was entered and has returned,
\* whatever the earlier repairs returned.
C7_FailureDoesNotAbortBatch ==
    (pc = "done" /\ GateReturned(TRUE)) =>
        /\ \A t \in FailedTargets :
              /\ \E i \in DOMAIN Calls : Rank(Calls[i].cmd) + 1 = t
              /\ \E i \in DOMAIN outcomes : outcomes[i].target = results[t].Name
        /\ Len(outcomes) = Cardinality(FailedTargets)

\* C7 witness: the git repair failed, the docker repair failed after it, and
\* the daemon start was still attempted.
C7_Witness ==
    /\ pc = "done"
    /\ Len(outcomes) = 3
    /\ ~outcomes[1].ok /\ outcomes[1].target = "git"
    /\ ~outcomes[2].ok /\ outcomes[2].target = "docker"
    /\ outcomes[3].target = "docker daemon"

\* C8: after the privilege check returned true the process exits only after
\* every pending repair has returned; the failure count is then the number of
\* repairs that returned an error, and the exit code is 1 if and only if that
\* number is positive, and 0 otherwise.
C8_ExitFromFailureCount ==
    /\ repairErrors = Cardinality(FailedOutcomes)
    /\ (GateReturned(TRUE) /\ pc = "done") =>
          /\ Len(outcomes) = Cardinality(FailedTargets)
          /\ exitCode \in {0, 1}
          /\ (exitCode = 1 <=> FailedOutcomes # {})

\* C8 witness: the first repair failed, two later repairs succeeded, and the
\* process exited with code 1.
C8_Witness ==
    /\ pc = "done"
    /\ exitCode = 1
    /\ Len(outcomes) = 3
    /\ ~outcomes[1].ok /\ outcomes[2].ok /\ outcomes[3].ok

IsDockerInstallStep(e) == e.by = repairDocker(platform).name /\ e.op # "Call"

\* the steps of the docker install procedure that were executed, in order
DockerSteps == SelectSeq(log, IsDockerInstallStep)

\* C9: the executed steps of an install sequence are its steps 1, 2, ... in
\* order, each once; a step is executed only when every step before it
\* succeeded; and the repair has returned an error exactly when its last
\* executed step failed, and success only when every step was executed.
C9_FirstFailureEndsSequence ==
    LET done == DockerSteps
        all == repairDocker(platform).steps
        n == Len(done)
    IN /\ n <= Len(all)
       /\ \A k \in 1..n :
             /\ done[k].idx = k
             /\ done[k].op = all[k].op
             /\ done[k].cmd = all[k].cmd
             /\ k < n => done[k].ok
       /\ (n > 0 /\ ~done[n].ok) =>
             \E i \in DOMAIN outcomes : outcomes[i] = [target |-> "docker", ok |-> FALSE]
       /\ \A i \in DOMAIN outcomes :
             (outcomes[i] = [target |-> "docker", ok |-> TRUE]) =>
                 /\ n = Len(all)
                 /\ done[n].ok

\* C9 witness: installDockerDebian failed at its fifth step of eight, after
\* which the run ended.
C9_Witness ==
    /\ pc = "done"
    /\ Len(DockerSteps) = 5
    /\ DockerSteps[5].by = "installDockerDebian"
    /\ ~DockerSteps[5].ok

IsStartLinux(e) == e.by = "startDockerDaemonLinux"

\* what startDockerDaemonLinux did, in order
StartChain == SelectSeq(log, IsStartLinux)

\* C10: startDockerDaemonLinux looks up and runs systemctl, rc-service and
\* service in that order and launches dockerd last; a run that succeeds is the
\* last thing it does; a mechanism is tried only when the one before it was
\* absent or its run failed; and when it has returned, it ended at a run that
\* succeeded or at the launch of dockerd.
C10_StartChainOrder ==
    LET c == StartChain
        n == Len(c)
        exes == << "systemctl", "rc-service", "service" >>
        cmds == << "systemctl start docker", "rc-service docker start", "service docker start" >>
    IN /\ \A k \in 1..n :
             /\ c[k].idx \in 1..4
             /\ c[k].op \in {"LookPath", "Run", "Start"}
             /\ c[k].op = "LookPath" => c[k].idx <= 3 /\ c[k].cmd = exes[c[k].idx]
             /\ c[k].op = "Run" =>
                   /\ c[k].idx <= 3
                   /\ c[k].cmd = cmds[c[k].idx]
                   /\ k > 1
                   /\ c[k - 1] = Ev("LookPath", exes[c[k].idx], TRUE, "startDockerDaemonLinux", c[k].idx)
             /\ c[k].op = "Start" => c[k].idx = 4 /\ c[k].cmd = "dockerd"
             /\ (c[k].op \in {"Run", "Start"} /\ c[k].ok) => k = n
             /\ (c[k].op = "LookPath" /\ c[k].ok) => k < n
             /\ k = 1 => c[k].op = "LookPath" /\ c[k].idx = 1
             /\ (k > 1 /\ c[k].op # "Run") => c[k].idx = c[k - 1].idx + 1 /\ ~c[k - 1].ok
       /\ (n > 0 /\ pc # "startLinux") =>
             /\ c[n].op \in {"Run", "Start"}
             /\ c[n].ok \/ c[n].op = "Start"

\* C10 witness: systemctl was absent, the rc-service run failed and the service
\* run succeeded, so dockerd was not launched.
C10_Witness ==
    /\ Len(StartChain) = 5
    /\ StartChain[1] = Ev("LookPath", "systemctl", FALSE, "startDockerDaemonLinux", 1)
    /\ StartChain[3] = Ev("Run", "rc-service docker start", FALSE, "startDockerDaemonLinux", 2)
    /\ StartChain[5] = Ev("Run", "service docker start", TRUE, "startDockerDaemonLinux", 3)
    /\ pc = "done"

(***************************************************************************)
(* commands/setup.go: the install procedures                               *)
(***************************************************************************)
\* one step of a setup install procedure; the error of a step that is not
\* fatal is only written as a warning
Step(op, cmd, fatal) == [op |-> op, cmd |-> cmd, fatal |-> fatal]

\* a procedure that returns an error before it runs anything
Unsupported(name) == [name |-> name, steps |-> <<>>, supported |-> FALSE]

\* a procedure made of steps
Procedure(name, steps) == [name |-> name, steps |-> steps, supported |-> TRUE]

installFirewallArch ==
    Procedure("installFirewallArch", <<Step("Run", "pacman -Sy --noconfirm ufw", TRUE)>>)

installFirewallAlpine ==
    Procedure("installFirewallAlpine", <<Step("Run", "apk add iptables", TRUE)>>)

\* a mutation of installFirewallByPackageManager: an unsupported package
\* manager is treated like apt
installFirewallByPackageManagerDefaultsToApt(pm) ==
    CASE pm = "dnf" -> Procedure("installFirewallByPackageManager",
                                 <<Step("Run", "dnf install -y -q firewalld", TRUE)>>)
      [] pm = "pacman" -> Procedure("installFirewallByPackageManager",
                                    <<Step("Run", "pacman -Sy --noconfirm ufw", TRUE)>>)
      [] pm = "apk" -> Procedure("installFirewallByPackageManager",
                                 <<Step("Run", "apk add iptables", TRUE)>>)
      [] pm = "zypper" -> Procedure("installFirewallByPackageManager",
                                    <<Step("Run", "zypper install -y firewalld", TRUE)>>)
      [] OTHER -> Procedure("installFirewallByPackageManager",
                            <<Step("Run", "apt-get install -y -qq ufw", TRUE)>>)

installFirewallByPackageManager(pm) ==
    CASE pm = "apt" -> Procedure("installFirewallByPackageManager",
                                 <<Step("Run", "apt-get install -y -qq ufw", TRUE)>>)
      [] pm = "dnf" -> Procedure("installFirewallByPackageManager",
                                 <<Step("Run", "dnf install -y -q firewalld", TRUE)>>)
      [] pm = "pacman" -> Procedure("installFirewallByPackageManager",
                                    <<Step("Run", "pacman -Sy --noconfirm ufw", TRUE)>>)
      [] pm = "apk" -> Procedure("installFirewallByPackageManager",
                                 <<Step("Run", "apk add iptables", TRUE)>>)
      [] pm = "zypper" -> Procedure("installFirewallByPackageManager",
                                    <<Step("Run", "zypper install -y firewalld", TRUE)>>)
      [] OTHER -> Unsupported("installFirewallByPackageManager")

installFirewallDebian ==
    Procedure("installFirewallDebian",
              <<Step("Run", "apt-get update -qq", TRUE),
                Step("Run", "apt-get install -y -qq ufw", TRUE)>>)

installFirewallFedora ==
    Procedure("installFirewallFedora",
              <<Step("Run", "dnf install -y -q firewalld", TRUE),
                Step("Run", "systemctl enable --now firewalld", TRUE)>>)

installFirewallGentoo ==
    Procedure("installFirewallGentoo",
              <<Step("Run", "emerge --quiet net-firewall/iptables", TRUE)>>)

installFirewallOpenSUSE ==
    Procedure("installFirewallOpenSUSE",
              <<Step("Run", "zypper install -y firewalld", TRUE),
                Step("Run", "systemctl enable --now firewalld", TRUE)>>)

installFirewallVoid ==
    Procedure("installFirewallVoid", <<Step("Run", "xbps-install -y iptables", TRUE)>>)

installFirewallLinux(pl) ==
    CASE pl.LinuxDistro \in {"debian", "ubuntu"} -> installFirewallDebian
      [] pl.LinuxDistro \in {"fedora", "rhel", "centos"} -> installFirewallFedora
      [] pl.LinuxDistro = "arch" -> installFirewallArch
      [] pl.LinuxDistro = "alpine" -> installFirewallAlpine
      [] pl.LinuxDistro = "opensuse" -> installFirewallOpenSUSE
      [] pl.LinuxDistro = "gentoo" -> installFirewallGentoo
      [] pl.LinuxDistro = "void" -> installFirewallVoid
      [] OTHER -> installFirewallByPackageManager(pl.PackageManager)

\* installFirewall: on macOS and Windows nothing is run and nil is returned
installFirewall(pl) ==
    CASE pl.OS = "linux" -> installFirewallLinux(pl)
      [] pl.OS = "darwin" -> Procedure("installFirewall", <<>>)
      [] pl.OS = "windows" -> Procedure("installFirewall", <<>>)
      [] OTHER -> Unsupported("installFirewall")

\* a mutation of ConfigureStep: the error of configureSSHPort is returned by
\* the procedure
ConfigureStepFatal == Step("Call", "configureSSHPort", TRUE)

\* the call of configureSSHPort inside an install procedure: its error is
\* written as a warning
ConfigureStep == Step("Call", "configureSSHPort", FALSE)

installSSHAlpine ==
    Procedure("installSSHAlpine",
              <<Step("Run", "apk add openssh", TRUE), ConfigureStep,
                Step("Run", "rc-update add sshd", TRUE),
                Step("Run", "service sshd start", TRUE)>>)

installSSHArch ==
    Procedure("installSSHArch",
              <<Step("Run", "pacman -Sy --noconfirm openssh", TRUE), ConfigureStep,
                Step("Run", "systemctl enable --now sshd", TRUE)>>)

installSSHByPackageManager(pm) ==
    CASE pm = "apt" -> Procedure("installSSHByPackageManager",
                                 <<Step("Run", "apt-get install -y -qq openssh-server", TRUE),
                                   ConfigureStep,
                                   Step("Run", "systemctl enable --now ssh", TRUE)>>)
      [] pm = "dnf" -> Procedure("installSSHByPackageManager",
                                 <<Step("Run", "dnf install -y -q openssh-server", TRUE),
                                   ConfigureStep,
                                   Step("Run", "systemctl enable --now sshd", TRUE)>>)
      [] pm = "pacman" -> Procedure("installSSHByPackageManager",
                                    <<Step("Run", "pacman -Sy --noconfirm openssh", TRUE),
                                      ConfigureStep,
                                      Step("Run", "systemctl enable --now sshd", TRUE)>>)
      [] pm = "apk" -> Procedure("installSSHByPackageManager",
                                 <<Step("Run", "apk add openssh", TRUE),
                                   ConfigureStep,
                                   Step("Run", "rc-update add sshd", TRUE)>>)
      [] OTHER -> Unsupported("installSSHByPackageManager")

installSSHDarwin ==
    Procedure("installSSHDarwin", <<Step("Run", "systemsetup -setremotelogin on", TRUE)>>)

installSSHDebian ==
    Procedure("installSSHDebian",
              <<Step("Run", "apt-get update -qq", TRUE),
                Step("Run", "apt-get install -y -qq openssh-server", TRUE), ConfigureStep,
                Step("Run", "systemctl enable --now ssh", TRUE)>>)

installSSHFedora ==
    Procedure("installSSHFedora",
              <<Step("Run", "dnf install -y -q openssh-server", TRUE), ConfigureStep,
                Step("Run", "systemctl enable --now sshd", TRUE)>>)

installSSHGentoo ==
    Procedure("installSSHGentoo",
              <<Step("Run", "emerge --quiet net-misc/openssh", TRUE), ConfigureStep,
                Step("Run", "rc-update add sshd default", TRUE),
                Step("Run", "service sshd start", TRUE)>>)

installSSHOpenSUSE ==
    Procedure("installSSHOpenSUSE",
              <<Step("Run", "zypper install -y openssh", TRUE), ConfigureStep,
                Step("Run", "systemctl enable --now sshd", TRUE)>>)

\* the error of the final link is only written as a warning
installSSHVoid ==
    Procedure("installSSHVoid",
              <<Step("Run", "xbps-install -y openssh", TRUE), ConfigureStep,
                Step("Run", "ln -s /etc/sv/sshd /var/service/", FALSE)>>)

\* the sshd_config rewrite is run only for a port other than 22
installSSHWindows(port) ==
    Procedure("installSSHWindows",
              <<Step("Run", "powershell Add-WindowsCapability -Online -Name OpenSSH.Server~~~~0.0.1.0", TRUE)>>
              \o (IF port # 22
                  THEN <<Step("Run", "powershell Set-Content sshd_config Port " \o ToString(port), FALSE)>>
                  ELSE <<>>)
              \o <<Step("Run", "powershell Start-Service sshd; Set-Service -Name sshd -StartupType Automatic", TRUE),
                   Step("Run", "powershell New-NetFirewallRule -LocalPort " \o ToString(port), FALSE)>>)

\* a mutation of installSSHLinux: the Fedora family has no procedure of its own
installSSHLinuxWithoutFedora(pl) ==
    CASE pl.LinuxDistro \in {"debian", "ubuntu"} -> installSSHDebian
      [] pl.LinuxDistro = "arch" -> installSSHArch
      [] pl.LinuxDistro = "alpine" -> installSSHAlpine
      [] pl.LinuxDistro = "opensuse" -> installSSHOpenSUSE
      [] pl.LinuxDistro = "gentoo" -> installSSHGentoo
      [] pl.LinuxDistro = "void" -> installSSHVoid
      [] OTHER -> installSSHByPackageManager(pl.PackageManager)

installSSHLinux(pl) ==
    CASE pl.LinuxDistro \in {"debian", "ubuntu"} -> installSSHDebian
      [] pl.LinuxDistro \in {"fedora", "rhel", "centos"} -> installSSHFedora
      [] pl.LinuxDistro = "arch" -> installSSHArch
      [] pl.LinuxDistro = "alpine" -> installSSHAlpine
      [] pl.LinuxDistro = "opensuse" -> installSSHOpenSUSE
      [] pl.LinuxDistro = "gentoo" -> installSSHGentoo
      [] pl.LinuxDistro = "void" -> installSSHVoid
      [] OTHER -> installSSHByPackageManager(pl.PackageManager)

installSSH(pl, port) ==
    CASE pl.OS = "linux" -> installSSHLinux(pl)
      [] pl.OS = "darwin" -> installSSHDarwin
      [] pl.OS = "windows" -> installSSHWindows(port)
      [] OTHER -> Unsupported("installSSH")

(***************************************************************************)
(* commands/setup.go and app: prompts, checks and ports                    *)
(* Text is a sequence of one-character strings.                            *)
(***************************************************************************)
Whitespace == {" ", "\n", "\t", "\r"}

RECURSIVE TrimLeft(_)
TrimLeft(s) == IF s # <<>> /\ Head(s) \in Whitespace THEN TrimLeft(Tail(s)) ELSE s

RECURSIVE TrimRight(_)
TrimRight(s) ==
    IF s # <<>> /\ s[Len(s)] \in Whitespace THEN TrimRight(SubSeq(s, 1, Len(s) - 1)) ELSE s

\* strings.TrimSpace
TrimSpace(s) == TrimRight(TrimLeft(s))

UpperCase == <<"A","B","C","D","E","F","G","H","I","J","K","L","M",
               "N","O","P","Q","R","S","T","U","V","W","X","Y","Z">>
LowerCase == <<"a","b","c","d","e","f","g","h","i","j","k","l","m",
               "n","o","p","q","r","s","t","u","v","w","x","y","z">>

\* strings.ToLower
ToLower(s) ==
    [i \in DOMAIN s |->
        IF \E k \in DOMAIN UpperCase : UpperCase[k] = s[i]
        THEN LowerCase[CHOOSE k \in DOMAIN UpperCase : UpperCase[k] = s[i]]
        ELSE s[i]]

\* strings.HasPrefix
HasPrefix(s, prefix) == Len(s) >= Len(prefix) /\ SubSeq(s, 1, Len(prefix)) = prefix

\* one pass of the loop of PromptYesNo on the line read: done is FALSE when
\* the prompt is repeated
PromptYesNo(in, defaultYes) ==
    IF in.err THEN [done |-> TRUE, value |-> defaultYes]
    ELSE LET answer == TrimSpace(ToLower(in.text))
         IN IF answer \in {<<"n">>, <<"n","o">>, <<"y">>, <<"y","e","s">>}
            THEN [done |-> TRUE, value |-> in.text = <<"y">> \/ in.text = <<"y","e","s">>]
            ELSE IF answer = <<>>
                 THEN [done |-> TRUE, value |-> defaultYes]
                 ELSE [done |-> FALSE, value |-> FALSE]

\* what reader.ReadString('\n') may return: a line that ends with the
\* delimiter, or an error with the text read before the end of the input
YesNoInputs ==
    [err : {FALSE},
     text : {<<"y","\n">>, <<"Y","\n">>, <<"y","e","s","\n">>, <<"n","\n">>, <<"n","o","\n">>,
             <<"\n">>, <<" ","\n">>, <<"x","\n">>}]
    \cup [err : {TRUE}, text : {<<>>, <<"y">>}]

\* one pass of the loop of PromptPort: kind is "eof" (read error), "empty",
\* "text" (strconv.Atoi fails) or "number" with the value n
PromptPort(in, defaultPort) ==
    CASE in.kind \in {"eof", "empty"} -> [done |-> TRUE, value |-> defaultPort]
      [] in.kind = "text" -> [done |-> FALSE, value |-> 0]
      [] OTHER -> IF in.n < 1 \/ in.n > 65535
                  THEN [done |-> FALSE, value |-> 0]
                  ELSE [done |-> TRUE, value |-> in.n]

PortInputs ==
    [kind : {"eof", "empty", "text"}, n : {0}] \cup [kind : {"number"}, n : {0, 22, 8022, 65536}]

\* generateRandomPort
minPort == 1025
maxPort == 65535
maxAttempts == 100
\* the port returned when no draw was available
fallbackPort == 2222

\* rand.Intn(n): three of the values in [0, n)
Intn(n) == {0, fallbackPort - minPort, n - 1}

\* checkFirewallLinux: the executables looked up, in order, and the name reported
FirewallTools ==
    <<[exe |-> "ufw", name |-> "ufw"], [exe |-> "firewall-cmd", name |-> "firewalld"],
      [exe |-> "iptables", name |-> "iptables"], [exe |-> "nft", name |-> "nftables"]>>

\* checkFirewallLinux on a host where the executables in p exist: the first
\* one found is reported
RECURSIVE checkFirewallLinux(_, _)
checkFirewallLinux(p, i) ==
    IF i > Len(FirewallTools)
    THEN [Name |-> "ufw", Installed |-> FALSE, Command |-> "ufw"]
    ELSE IF CommandExists(FirewallTools[i].exe, p)
         THEN [Name |-> FirewallTools[i].name, Installed |-> TRUE,
               Command |-> FirewallTools[i].exe]
         ELSE checkFirewallLinux(p, i + 1)

\* pf is reported whether pfctl is found or not
checkFirewallDarwin == [Name |-> "pf", Installed |-> TRUE, Command |-> "pfctl"]

\* the Windows Firewall is reported whether netsh succeeds or not
checkFirewallWindows == [Name |-> "Windows Firewall", Installed |-> TRUE, Command |-> "netsh"]

\* checkFirewall: every result the host can give on this GOOS
checkFirewall(g) ==
    CASE g = "linux" ->
            {checkFirewallLinux(p, 1) : p \in SUBSET {"ufw", "firewall-cmd", "iptables", "nft"}}
      [] g = "darwin" -> {checkFirewallDarwin}
      [] g = "windows" -> {checkFirewallWindows}
      [] OTHER -> {[Name |-> "unknown", Installed |-> FALSE, Command |-> ""]}

\* what the host answers to the questions of checkSSHLinux
SSHHosts ==
    [sshd : BOOLEAN, stat : BOOLEAN, systemctl : BOOLEAN, activeSshd : BOOLEAN,
     activeSsh : BOOLEAN, rcService : BOOLEAN, rcStatus : BOOLEAN, pgrep : BOOLEAN]

checkSSHLinux(h) ==
    LET installed == h.sshd \/ h.stat
        bySystemctl == h.systemctl /\ (h.activeSshd \/ h.activeSsh)
        byRcService == bySystemctl \/ (h.rcService /\ h.rcStatus)
        byPgrep == byRcService \/ h.pgrep
    IN [Name |-> "openssh", Installed |-> installed, Running |-> installed /\ byPgrep]

\* on is: the command succeeded and its output contains "on"
checkSSHDarwin(on) == [Name |-> "openssh", Installed |-> TRUE, Running |-> on]

\* installed is: the capability query succeeded and printed "Installed";
\* running is: the service query succeeded and printed "Running"
checkSSHWindows(installed, running) ==
    [Name |-> "openssh", Installed |-> installed, Running |-> installed /\ running]

\* checkSSH: every result the host can give on this GOOS
checkSSH(g) ==
    CASE g = "linux" -> {checkSSHLinux(h) : h \in SSHHosts}
      [] g = "darwin" -> {checkSSHDarwin(on) : on \in BOOLEAN}
      [] g = "windows" -> {checkSSHWindows(i, r) : i \in BOOLEAN, r \in BOOLEAN}
      [] OTHER -> {[Name |-> "unknown", Installed |-> FALSE, Running |-> FALSE]}

\* strconv.Itoa of a natural number, as characters
DigitChars == <<"0","1","2","3","4","5","6","7","8","9">>
RECURSIVE Itoa(_)
Itoa(n) == IF n < 10 THEN <<DigitChars[n + 1]>> ELSE Itoa(n \div 10) \o <<DigitChars[(n % 10) + 1]>>

\* fmt.Sprintf("Port %d", port)
PortLine(port) == <<"P","o","r","t"," ">> \o Itoa(port)

\* the test of configureSSHPort on a line of sshd_config
IsPortLine(line) ==
    \/ HasPrefix(TrimSpace(line), <<"P","o","r","t"," ">>)
    \/ HasPrefix(TrimSpace(line), <<"#","P","o","r","t"," ">>)

\* a mutation of rewritePort: the loop goes on after the first Port line
RECURSIVE rewritePortWithoutBreak(_, _, _)
rewritePortWithoutBreak(lines, port, i) ==
    IF i > Len(lines)
    THEN IF \E k \in DOMAIN lines : IsPortLine(lines[k])
         THEN lines ELSE <<PortLine(port)>> \o lines
    ELSE IF IsPortLine(lines[i])
         THEN [rewritePortWithoutBreak(lines, port, i + 1) EXCEPT ![i] = PortLine(port)]
         ELSE rewritePortWithoutBreak(lines, port, i + 1)

\* the loop of configureSSHPort from line i on, and the prepend after it
\* a mutation of rewritePort: the Port line is put in front of the file
\* whether or not the file has one
rewritePortAlwaysPrepends(lines, port, i) == <<PortLine(port)>> \o lines

RECURSIVE rewritePort(_, _, _)
rewritePort(lines, port, i) ==
    IF i > Len(lines) THEN <<PortLine(port)>> \o lines
    ELSE IF IsPortLine(lines[i]) THEN [lines EXCEPT ![i] = PortLine(port)]
         ELSE rewritePort(lines, port, i + 1)

\* configureSSHPort on a file with the given lines (strings.Split of the
\* content): every outcome of the read and the write of /etc/ssh/sshd_config;
\* port 22 returns nil at once; a failed write leaves the file as it was or
\* truncated
configureSSHPort(port, lines) ==
    IF port = 22 THEN {[ok |-> TRUE, log |-> <<>>, file |-> lines]}
    ELSE {[ok |-> FALSE, file |-> lines,
           log |-> <<Ev("ReadFile", "/etc/ssh/sshd_config", FALSE, "configureSSHPort", 0)>>]}
         \cup {[ok |-> TRUE, file |-> rewritePort(lines, port, 1),
                log |-> <<Ev("ReadFile", "/etc/ssh/sshd_config", TRUE, "configureSSHPort", 0),
                          Ev("WriteFile", "/etc/ssh/sshd_config", TRUE, "configureSSHPort", 0)>>]}
         \cup {[ok |-> FALSE, file |-> f,
                log |-> <<Ev("ReadFile", "/etc/ssh/sshd_config", TRUE, "configureSSHPort", 0),
                          Ev("WriteFile", "/etc/ssh/sshd_config", FALSE, "configureSSHPort", 0)>>] :
               f \in {lines, <<<<>>>>}}

\* what `docker ps --format {{.Status}}` prints for a container
StatusUp == <<"U","p"," ","2"," ","h","o","u","r","s","\n">>
StatusRestarting == <<"R","e","s","t","a","r","t","i","n","g"," ","(","1",")","\n">>

\* the host ports a registry container may be published on
RegistryPorts == {5000, 5001}

\* the values of --registry-port runSetup is started with
RequestedPorts == {5000}

\* no container named autark-registry exists
NoContainer == [out |-> <<>>, hostPort |-> 0]

\* the containers named autark-registry a host may have: out is what docker ps
\* prints for it (nothing for a container that is not running), hostPort the
\* host port its port 5000 is published on
HostContainers ==
    {NoContainer} \cup [out : {StatusUp, StatusRestarting, <<>>}, hostPort : RegistryPorts]

\* a mutation of checkRegistryRunning: the status is not put in lower case
checkRegistryRunningCaseSensitive(c) ==
    LET by == "checkRegistryRunning"
        status == TrimSpace(c.out)
        running == IF status = <<>> THEN FALSE ELSE HasPrefix(status, <<"u","p">>)
        failed == Ev("Return", "error", FALSE, by, 0)
    IN {[running |-> FALSE, err |-> TRUE,
         log |-> <<Ev("LookPath", "docker", FALSE, by, 0), failed>>],
        [running |-> FALSE, err |-> TRUE,
         log |-> <<Ev("LookPath", "docker", TRUE, by, 0),
                   Ev("Run", "docker info", FALSE, "checkDockerDaemonRunning", 0), failed>>],
        [running |-> FALSE, err |-> TRUE,
         log |-> <<Ev("LookPath", "docker", TRUE, by, 0),
                   Ev("Run", "docker info", TRUE, "checkDockerDaemonRunning", 0),
                   Ev("Run", "docker ps --filter name=autark-registry --format {{.Status}}",
                      FALSE, by, 0), failed>>],
        [running |-> running, err |-> FALSE,
         log |-> <<Ev("LookPath", "docker", TRUE, by, 0),
                   Ev("Run", "docker info", TRUE, "checkDockerDaemonRunning", 0),
                   Ev("Run", "docker ps --filter name=autark-registry --format {{.Status}}",
                      TRUE, by, 0),
                   Ev("Return", IF running THEN "running" ELSE "not running", running, by, 0)>>]}

\* checkRegistryRunning: every outcome on a host with container c; the last
\* entry of log is what it returns
checkRegistryRunning(c) ==
    LET by == "checkRegistryRunning"
        status == TrimSpace(c.out)
        running == IF status = <<>> THEN FALSE ELSE HasPrefix(ToLower(status), <<"u","p">>)
        failed == Ev("Return", "error", FALSE, by, 0)
    IN {[running |-> FALSE, err |-> TRUE,
         log |-> <<Ev("LookPath", "docker", FALSE, by, 0), failed>>],
        [running |-> FALSE, err |-> TRUE,
         log |-> <<Ev("LookPath", "docker", TRUE, by, 0),
                   Ev("Run", "docker info", FALSE, "checkDockerDaemonRunning", 0), failed>>],
        [running |-> FALSE, err |-> TRUE,
         log |-> <<Ev("LookPath", "docker", TRUE, by, 0),
                   Ev("Run", "docker info", TRUE, "checkDockerDaemonRunning", 0),
                   Ev("Run", "docker ps --filter name=autark-registry --format {{.Status}}",
                      FALSE, by, 0), failed>>],
        [running |-> running, err |-> FALSE,
         log |-> <<Ev("LookPath", "docker", TRUE, by, 0),
                   Ev("Run", "docker info", TRUE, "checkDockerDaemonRunning", 0),
                   Ev("Run", "docker ps --filter name=autark-registry --format {{.Status}}",
                      TRUE, by, 0),
                   Ev("Return", IF running THEN "running" ELSE "not running", running, by, 0)>>]}

\* the command line of installRegistry that creates the container
DockerRun(port) ==
    "docker run -d --name autark-registry --restart=always -p " \o ToString(port)
        \o ":5000 registry:2"

(***************************************************************************)
(* Specification of the setup command: runSetup step by step               *)
(***************************************************************************)
\* what runSetup never assigns
setupFrame == <<goos, goarch, osRelease, path, platform, probes, ppc, uidRoot, repair, results,
                issues, repairErrors, outcomes, opts, host, release,
          installer, prompt>>

\* the platforms runSetup is started on: those DetectPlatform returns for one
\* id of each family that has install procedures of its own, and without
\* /etc/os-release
SetupOsReleases ==
    {Absent} \cup [err : {FALSE},
                   ID : {"debian", "fedora", "arch", "alpine", "opensuse", "gentoo", "void"},
                   ID_LIKE : {<<>>}]

InitSetup ==
    /\ goos \in GoosNames
    /\ goarch = "amd64"
    /\ \E osr \in (IF goos = "linux" THEN SetupOsReleases ELSE {Absent}), p \in Paths :
          /\ platform = DetectPlatform(goos, goarch, osr, p).info
          /\ probes = DetectPlatform(goos, goarch, osr, p).probes
    /\ osRelease = Absent
    /\ path = {}
    /\ ppc = "done"
    /\ uidRoot \in (IF goos = "windows" THEN {FALSE} ELSE BOOLEAN)
    /\ repair = FALSE /\ results = <<>> /\ issues = 0 /\ repairErrors = 0
    /\ proc = NoProc /\ step = 0 /\ exitCode = 0 /\ outcomes = <<>> /\ log = <<>>
    /\ pc = "firewall"
    /\ opts \in [RegistryPort : RequestedPorts, NoFirewall : BOOLEAN, NoSSH : BOOLEAN]
    /\ suggestedPort = 0 /\ sshPort = 0
    /\ container = NoContainer
    /\ stdout = <<>> /\ attempt = 0 /\ failedDraws = {}
    /\ portHolder = "nobody"
    /\ sshdConfig = DefaultConfig
    /\ host = FirstRun
    /\ release = NotRead
    /\ installer = NotInstalling
    /\ prompt = NotPrompting

\* runSetup goes on at position l
Goto(l) == pc' = l /\ exitCode' = exitCode

\* a status line written to the standard output; port is 0 for a line
\* without a number
Say(text, port) == stdout' = Append(stdout, [text |-> text, port |-> port])

\* runSetup has written the line `text`
Said(text) == \E k \in DOMAIN stdout : stdout[k].text = text

\* checkFirewall and the report of its result
CheckFirewall ==
    /\ pc = "firewall"
    /\ \/ /\ opts.NoFirewall
          /\ Goto("ssh")
          /\ UNCHANGED <<log, stdout>>
       \/ /\ ~opts.NoFirewall
          /\ \E r \in checkFirewall(goos) :
                /\ host.firewall = "present" => r.Installed
                /\ host.firewall = "absent" => ~r.Installed
                /\ log' = log \o <<Ev("Call", "checkFirewall", TRUE, "runSetup", 0),
                                     Ev("Return", IF r.Installed THEN "installed" ELSE "absent",
                                        r.Installed, "checkFirewall", 0)>>
                /\ IF r.Installed
                   THEN Goto("ssh") /\ Say("[OK] Firewall detected", 0)
                   ELSE Goto("firewallPrompt") /\ Say("[WARN] No firewall detected.", 0)
    /\ UNCHANGED <<proc, step, suggestedPort, sshPort, container, attempt, failedDraws>>
    /\ UNCHANGED <<setupFrame, portHolder, sshdConfig>>

\* a mutation of Confirm: the target is installed whatever the answer is
ConfirmIgnoresAnswer(question, yes, no, skipped) ==
    /\ \E in \in YesNoInputs :
          /\ PromptYesNo(in, TRUE).done
          /\ log' = Append(log, Ev("PromptYesNo", question, PromptYesNo(in, TRUE).value,
                                   "runSetup", 0))
          /\ Goto(yes) /\ stdout' = stdout
    /\ UNCHANGED <<proc, step, suggestedPort, sshPort, container,
                   attempt, failedDraws>>
    /\ UNCHANGED <<setupFrame, portHolder, sshdConfig>>

\* PromptYesNo with the default yes, up to the answer that ends its loop
Confirm(question, yes, no, skipped) ==
    /\ \E in \in YesNoInputs :
          /\ PromptYesNo(in, TRUE).done
          /\ log' = Append(log, Ev("PromptYesNo", question, PromptYesNo(in, TRUE).value,
                                   "runSetup", 0))
          /\ IF PromptYesNo(in, TRUE).value
             THEN Goto(yes) /\ stdout' = stdout
             ELSE Goto(no) /\ Say(skipped, 0)
    /\ UNCHANGED <<proc, step, suggestedPort, sshPort, container,
                   attempt, failedDraws>>
    /\ UNCHANGED <<setupFrame, portHolder, sshdConfig>>

PromptFirewall ==
    /\ pc = "firewallPrompt"
    /\ Confirm("Would you like to install a firewall?", "firewallRoot", "ssh",
               "Skipping firewall installation.")

\* a mutation of RequireRoot: the install goes on without privileges
RequireRootIgnoresResult(granted) ==
    /\ \E r \in IsRootResults :
          /\ log' = Append(log, Ev("IsRoot", "", r, "runSetup", 0))
          /\ Goto(granted)
    /\ UNCHANGED <<proc, step, suggestedPort, sshPort, container, stdout,
                   attempt, failedDraws>>
    /\ UNCHANGED <<setupFrame, portHolder, sshdConfig>>

\* the privilege check after a confirmed prompt
RequireRoot(granted) ==
    /\ \E r \in IsRootResults :
          /\ log' = Append(log, Ev("IsRoot", "", r, "runSetup", 0))
          /\ IF ~r THEN Exit(1) ELSE Goto(granted)
    /\ UNCHANGED <<proc, step, suggestedPort, sshPort, container, stdout,
                   attempt, failedDraws>>
    /\ UNCHANGED <<setupFrame, portHolder, sshdConfig>>

FirewallPrivilege ==
    /\ pc = "firewallRoot"
    /\ RequireRoot("firewallInstall")

\* the call of an install procedure p: it returns an error at once, returns
\* nil at once, or starts its first step
Install(p, stepping, installed, text, port) ==
    /\ log' = Append(log, Ev("Call", p.name, TRUE, "runSetup", 0))
    /\ IF ~p.supported
       THEN Exit(1) /\ UNCHANGED <<proc, step, stdout>>
       ELSE IF p.steps = <<>>
            THEN Goto(installed) /\ Say(text, port) /\ UNCHANGED <<proc, step>>
            ELSE Goto(stepping) /\ proc' = p /\ step' = 1 /\ stdout' = stdout
    /\ UNCHANGED <<suggestedPort, sshPort, container, attempt, failedDraws>>
    /\ UNCHANGED <<setupFrame, portHolder, sshdConfig>>

InstallFirewall ==
    /\ pc = "firewallInstall"
    /\ Install(installFirewall(platform), "firewallStep", "ssh",
               "Firewall installed successfully.", 0)

\* a mutation of InstallStep: after the error of a fatal step runSetup goes on
\* with the next target
InstallStepContinuesOnError(installed, text, port) ==
    /\ \E r \in (IF proc.steps[step].op = "Call"
                 THEN configureSSHPort(sshPort, sshdConfig)
                 ELSE {[ok |-> ok, file |-> sshdConfig,
                        log |-> <<Ev("Run", proc.steps[step].cmd, ok, proc.name, step)>>] :
                       ok \in BOOLEAN}) :
          /\ log' = log \o r.log
          /\ sshdConfig' = r.file
          /\ step' = NextStep(step, Len(proc.steps), r.ok \/ ~proc.steps[step].fatal)
          /\ IF step' # 0
             THEN UNCHANGED <<pc, exitCode, proc, stdout>>
             ELSE /\ proc' = NoProc
                  /\ IF r.ok \/ ~proc.steps[step].fatal
                     THEN Goto(installed) /\ Say(text, port)
                     ELSE Goto(installed) /\ UNCHANGED <<exitCode, stdout>>
    /\ UNCHANGED <<suggestedPort, sshPort, container, attempt, failedDraws>>
    /\ UNCHANGED setupFrame

\* one step of the install procedure in progress: the error of a fatal step
\* ends runSetup with exit code 1
InstallStep(installed, text, port) ==
    /\ \E r \in (IF proc.steps[step].op = "Call"
                 THEN configureSSHPort(sshPort, sshdConfig)
                 ELSE {[ok |-> ok, file |-> sshdConfig,
                        log |-> <<Ev("Run", proc.steps[step].cmd, ok, proc.name, step)>>] :
                       ok \in BOOLEAN}) :
          /\ log' = log \o r.log
          /\ sshdConfig' = r.file
          /\ step' = NextStep(step, Len(proc.steps), r.ok \/ ~proc.steps[step].fatal)
          /\ IF step' # 0
             THEN UNCHANGED <<pc, exitCode, proc, stdout>>
             ELSE /\ proc' = NoProc
                  /\ IF r.ok \/ ~proc.steps[step].fatal
                     THEN Goto(installed) /\ Say(text, port)
                     ELSE Exit(1) /\ stdout' = stdout
    /\ UNCHANGED <<suggestedPort, sshPort, container, attempt, failedDraws>>
    /\ UNCHANGED setupFrame

FirewallStep ==
    /\ pc = "firewallStep"
    /\ InstallStep("ssh", "Firewall installed successfully.", 0)
    /\ UNCHANGED portHolder

\* checkSSH and the report of its result
CheckSSH ==
    /\ pc = "ssh"
    /\ \/ /\ opts.NoSSH
          /\ Goto("registry")
          /\ UNCHANGED <<log, stdout>>
       \/ /\ ~opts.NoSSH
          /\ \E r \in checkSSH(goos) :
                /\ host.ssh \in {"running", "stopped", "installed"} => r.Installed
                /\ host.ssh = "running" => r.Running
                /\ host.ssh = "stopped" => ~r.Running
                /\ host.ssh = "absent" => ~r.Installed
                /\ log' = log \o <<Ev("Call", "checkSSH", TRUE, "runSetup", 0),
                                     Ev("Return", IF ~r.Installed THEN "absent"
                                                  ELSE IF r.Running THEN "running"
                                                  ELSE "not running",
                                        r.Installed /\ r.Running, "checkSSH", 0)>>
                /\ IF r.Installed /\ r.Running
                   THEN Goto("registry") /\ Say("[OK] SSH server detected (running)", 0)
                   ELSE IF r.Installed
                        THEN Goto("registry")
                             /\ Say("[WARN] SSH server installed but not running", 0)
                        ELSE Goto("sshPrompt") /\ Say("[WARN] No SSH server detected.", 0)
    /\ UNCHANGED <<proc, step, suggestedPort, sshPort, container, attempt,
                   failedDraws>>
    /\ UNCHANGED <<setupFrame, portHolder, sshdConfig>>

PromptSSH ==
    /\ pc = "sshPrompt"
    /\ Confirm("Would you like to install an SSH server?", "sshRoot", "registry",
               "Skipping SSH server installation.")

SSHPrivilege ==
    /\ pc = "sshRoot"
    /\ RequireRoot("generatePort")

\* one pass of the loop of generateRandomPort: a port is drawn and a
\* listener is opened on it; an available port is returned
DrawPort ==
    /\ pc = "generatePort"
    /\ attempt < maxAttempts
    /\ \E r \in Intn(maxPort - minPort), available \in BOOLEAN :
          IF available
          THEN /\ suggestedPort' = minPort + r
               /\ Goto("promptPort")
               /\ failedDraws' = failedDraws \ {minPort + r}
               /\ UNCHANGED attempt
          ELSE /\ failedDraws' = failedDraws \cup {minPort + r}
               /\ attempt' = attempt + 1
               /\ UNCHANGED <<suggestedPort, pc, exitCode>>
    /\ UNCHANGED <<proc, step, log, sshPort, container, stdout>>
    /\ UNCHANGED <<setupFrame, portHolder, sshdConfig>>

\* the return of generateRandomPort after the loop
ReturnFallbackPort ==
    /\ pc = "generatePort"
    /\ attempt >= maxAttempts
    /\ suggestedPort' = fallbackPort
    /\ Goto("promptPort")
    /\ UNCHANGED <<proc, step, log, sshPort, container, stdout, attempt,
                   failedDraws>>
    /\ UNCHANGED <<setupFrame, portHolder, sshdConfig>>

\* the suggestion is written and PromptPort is called, up to the answer that
\* ends its loop
PromptSSHPort ==
    /\ pc = "promptPort"
    /\ \E in \in PortInputs :
          /\ PromptPort(in, suggestedPort).done
          /\ sshPort' = PromptPort(in, suggestedPort).value
    /\ log' = log \o <<Ev("Call", "generateRandomPort", TRUE, "runSetup", 0),
                       Ev("PromptPort", "Enter SSH port", TRUE, "runSetup", 0)>>
    /\ Say("Suggested SSH port (random, available, > 1024)", suggestedPort)
    /\ attempt' = 0
    /\ failedDraws' = {}
    /\ Goto("validatePort")
    /\ UNCHANGED <<proc, step, suggestedPort, container>>
    /\ UNCHANGED <<setupFrame, portHolder, sshdConfig>>

\* a mutation of ValidatePort: the listener stays open until the installation
\* is over
ValidatePortKeepsListener ==
    /\ pc = "validatePort"
    /\ \E available \in BOOLEAN :
          /\ log' = Append(log, Ev("Listen", ToString(sshPort), available, "runSetup", 0))
          /\ IF available THEN Goto("sshInstall") ELSE Exit(1)
          /\ portHolder' = IF available THEN "autark" ELSE "other"
    /\ UNCHANGED <<proc, step, suggestedPort, sshPort, container, stdout,
                   attempt, failedDraws>>
    /\ UNCHANGED <<setupFrame, sshdConfig>>

\* a mutation of ValidatePort: the port is not checked again
ValidatePortSkipsCheck ==
    /\ pc = "validatePort"
    /\ \E available \in BOOLEAN :
          /\ log' = Append(log, Ev("Listen", ToString(sshPort), available, "runSetup", 0))
          /\ Goto("sshInstall")
          /\ portHolder' = IF available THEN "nobody" ELSE "other"
    /\ UNCHANGED <<proc, step, suggestedPort, sshPort, container, stdout,
                   attempt, failedDraws>>
    /\ UNCHANGED <<setupFrame, sshdConfig>>

\* isTCPPortAvailable(sshPort) before the installation: the listener is
\* closed before the result is returned
ValidatePort ==
    /\ pc = "validatePort"
    /\ \E available \in BOOLEAN :
          /\ log' = Append(log, Ev("Listen", ToString(sshPort), available, "runSetup", 0))
          /\ IF available THEN Goto("sshInstall") ELSE Exit(1)
          /\ portHolder' = IF available THEN "nobody" ELSE "other"
    /\ UNCHANGED <<proc, step, suggestedPort, sshPort, container, stdout,
                   attempt, failedDraws>>
    /\ UNCHANGED <<setupFrame, sshdConfig>>

InstallSSH ==
    /\ pc = "sshInstall"
    /\ Install(installSSH(platform, sshPort), "sshStep", "registry",
               "SSH server installed successfully on port", sshPort)

SSHStep ==
    /\ pc = "sshStep"
    /\ InstallStep("registry", "SSH server installed successfully on port", sshPort)
    /\ UNCHANGED portHolder

\* the commands of the SSH procedures that start the service
StartCommands ==
    {"systemctl enable --now ssh", "systemctl enable --now sshd", "service sshd start",
     "ln -s /etc/sv/sshd /var/service/", "systemsetup -setremotelogin on",
     "powershell Start-Service sshd; Set-Service -Name sshd -StartupType Automatic"}
ServiceStarted ==
    \E k \in DOMAIN log : log[k].op = "Run" /\ log[k].ok /\ log[k].cmd \in StartCommands

\* another process of the host binds the chosen port after the listener of
\* isTCPPortAvailable was closed and before the SSH service is started
OtherProcessBinds ==
    /\ pc \in {"sshInstall", "sshStep"}
    /\ ~ServiceStarted
    /\ portHolder = "nobody"
    /\ portHolder' = "other"
    /\ UNCHANGED <<pc, exitCode, proc, step, log, suggestedPort, sshPort, container, stdout,
                   attempt, failedDraws>>
    /\ UNCHANGED <<setupFrame, sshdConfig>>

\* the lookup of docker before the registry is checked; the host is outside
\* the control of runSetup until then, and has any container from here on; a
\* host that an earlier run has left is as that run left it
RequireDocker ==
    /\ pc = "registry"
    /\ \E exists \in BOOLEAN :
          /\ log' = Append(log, Ev("LookPath", "docker", exists, "runSetup", 0))
          /\ host.ran => exists
          /\ IF exists THEN Goto("registryCheck") ELSE Exit(1)
    /\ IF host.ran THEN container' = container ELSE container' \in HostContainers
    /\ UNCHANGED <<proc, step, suggestedPort, sshPort, stdout,
                   attempt, failedDraws>>
    /\ UNCHANGED <<setupFrame, portHolder, sshdConfig>>

\* a mutation of CheckRegistry: the registry is installed although it runs
CheckRegistryAlwaysInstalls ==
    /\ pc = "registryCheck"
    /\ \E r \in checkRegistryRunning(container) :
          /\ log' = log \o r.log
          /\ IF r.err THEN Exit(1) /\ stdout' = stdout
             ELSE Goto("registryInstall")
                  /\ Say("Docker registry is not running on port", opts.RegistryPort)
    /\ UNCHANGED <<proc, step, suggestedPort, sshPort, container, attempt,
                   failedDraws>>
    /\ UNCHANGED <<setupFrame, portHolder, sshdConfig>>

\* the first checkRegistryRunning: a running registry ends runSetup
CheckRegistry ==
    /\ pc = "registryCheck"
    /\ \E r \in checkRegistryRunning(container) :
          /\ host.ran => ~r.err
          /\ log' = log \o r.log
          /\ IF r.err THEN Exit(1) /\ stdout' = stdout
             ELSE IF r.running
                  THEN Exit(0)
                       /\ Say("Docker registry is already running on port", opts.RegistryPort)
                  ELSE Goto("registryInstall")
                       /\ Say("Docker registry is not running on port", opts.RegistryPort)
    /\ UNCHANGED <<proc, step, suggestedPort, sshPort, container, attempt,
                   failedDraws>>
    /\ UNCHANGED <<setupFrame, portHolder, sshdConfig>>

\* installRegistry: the container is removed, whatever the result, and
\* created again; a created container is running, restarting or has stopped
InstallRegistry ==
    /\ pc = "registryInstall"
    /\ \E removed \in BOOLEAN, created \in BOOLEAN, out \in {StatusUp, StatusRestarting, <<>>} :
          /\ log' = log \o <<Ev("Call", "installRegistry", TRUE, "runSetup", 0),
                             Ev("Run", "docker rm -f autark-registry", removed,
                                "installRegistry", 1),
                             Ev("Run", DockerRun(opts.RegistryPort), created,
                                "installRegistry", 2)>>
          /\ container' = IF created THEN [out |-> out, hostPort |-> opts.RegistryPort]
                          ELSE IF removed THEN NoContainer ELSE container
          /\ IF created THEN Goto("registryVerify") ELSE Exit(1)
    /\ UNCHANGED <<proc, step, suggestedPort, sshPort, stdout, attempt,
                   failedDraws>>
    /\ UNCHANGED <<setupFrame, portHolder, sshdConfig>>

\* a mutation of VerifyRegistry: the result of the second check is not looked at
VerifyRegistryIgnoresResult ==
    /\ pc = "registryVerify"
    /\ \E r \in checkRegistryRunning(container) :
          /\ log' = log \o r.log
          /\ IF r.err
             THEN Exit(1) /\ stdout' = stdout
             ELSE Exit(0)
                  /\ Say("Docker registry successfully installed and running on port",
                         opts.RegistryPort)
    /\ UNCHANGED <<proc, step, suggestedPort, sshPort, container, attempt,
                   failedDraws>>
    /\ UNCHANGED <<setupFrame, portHolder, sshdConfig>>

\* the second checkRegistryRunning, after the installation
VerifyRegistry ==
    /\ pc = "registryVerify"
    /\ \E r \in checkRegistryRunning(container) :
          /\ log' = log \o r.log
          /\ IF r.err \/ ~r.running
             THEN Exit(1) /\ stdout' = stdout
             ELSE Exit(0)
                  /\ Say("Docker registry successfully installed and running on port",
                         opts.RegistryPort)
    /\ UNCHANGED <<proc, step, suggestedPort, sshPort, container, attempt,
                   failedDraws>>
    /\ UNCHANGED <<setupFrame, portHolder, sshdConfig>>

NextSetup ==
    \/ CheckFirewall
    \/ PromptFirewall
    \/ FirewallPrivilege
    \/ InstallFirewall
    \/ FirewallStep
    \/ CheckSSH
    \/ PromptSSH
    \/ SSHPrivilege
    \/ DrawPort
    \/ ReturnFallbackPort
    \/ PromptSSHPort
    \/ ValidatePort
    \/ InstallSSH
    \/ SSHStep
    \/ OtherProcessBinds
    \/ RequireDocker
    \/ CheckRegistry
    \/ InstallRegistry
    \/ VerifyRegistry

SpecSetup == InitSetup /\ [][NextSetup]_vars

(***************************************************************************)
(* Specification of two setup runs on one host: after a run that ended     *)
(* with exit code 0 the command is started again with the same arguments   *)
(* on the host as the first run left it; doctor runs once                  *)
(***************************************************************************)
\* the hosts of the two runs: Debian, Void, a Linux of no known family, Windows
InitRerun ==
    /\ InitSetup
    /\ goos \in {"linux", "windows"}
    /\ platform.LinuxDistro \in {"debian", "void", "unknown"}
    /\ platform.PackageManager \in {"apt", "xbps-install", "winget", "unknown"}

\* the second start of setup: a firewall or SSH server that the first run
\* detected or installed is there, one it did not find is still missing
Rerun ==
    /\ pc = "done" /\ exitCode = 0
    /\ ~host.ran
    /\ \E k \in DOMAIN log : log[k].by = "checkRegistryRunning"
    /\ host' = [ran |-> TRUE,
                firewall |-> IF Said("[OK] Firewall detected")
                                 \/ Said("Firewall installed successfully.") THEN "present"
                             ELSE IF Said("[WARN] No firewall detected.") THEN "absent"
                             ELSE "unknown",
                ssh |-> IF Said("[OK] SSH server detected (running)") THEN "running"
                        ELSE IF Said("[WARN] SSH server installed but not running") THEN "stopped"
                        ELSE IF Said("SSH server installed successfully on port") THEN "installed"
                        ELSE IF Said("[WARN] No SSH server detected.") THEN "absent"
                        ELSE "unknown"]
    /\ log' = Append(log, Ev("Call", "runSetup", TRUE, "main", 0))
    /\ pc' = "firewall"
    /\ stdout' = <<>>
    /\ suggestedPort' = 0 /\ sshPort' = 0 /\ portHolder' = "nobody"
    /\ UNCHANGED <<goos, goarch, osRelease, path, platform, probes, ppc, uidRoot, repair, results,
                   issues, repairErrors, outcomes, opts, exitCode, proc, step, container,
                   attempt, failedDraws, sshdConfig, release, installer, prompt>>

SpecRerun == (Init \/ InitRerun) /\ [][Next \/ NextSetup \/ Rerun]_vars

(***************************************************************************)
(* Specification of configureSSHPort on the sshd_config files of up to      *)
(* MaxLines lines                                                           *)
(***************************************************************************)
\* the lines the files are made of: an active, a commented-out and an indented
\* Port directive, a comment that names the port, another directive, an empty
\* line
ConfigLines ==
    {<<"P","o","r","t"," ","2","2">>,
     <<"#","P","o","r","t"," ","2","2">>,
     <<" "," ","P","o","r","t"," ","2","2","0","0">>,
     <<"#"," ","P","o","r","t"," ","2","2">>,
     <<"P","e","r","m","i","t","R","o","o","t","L","o","g","i","n"," ","n","o">>,
     <<>>}

\* strings.Split never returns an empty slice
ConfigFiles == UNION {[1..n -> ConfigLines] : n \in 1..MaxLines}

ConfigPorts == {22, 2222, 8022}

InitConfig ==
    /\ goos = "linux" /\ goarch = "amd64" /\ osRelease = Absent /\ path = {}
    /\ platform = DetectPlatform("linux", "amd64", Absent, {}).info
    /\ probes = DetectPlatform("linux", "amd64", Absent, {}).probes
    /\ ppc = "done"
    /\ uidRoot = TRUE /\ repair = FALSE /\ results = <<>> /\ issues = 0 /\ repairErrors = 0
    /\ proc = NoProc /\ step = 0 /\ exitCode = 0 /\ outcomes = <<>> /\ log = <<>>
    /\ pc = "configure"
    /\ opts = [RegistryPort |-> 0, NoFirewall |-> FALSE, NoSSH |-> FALSE]
    /\ suggestedPort = 0
    /\ container = NoContainer
    /\ stdout = <<>> /\ attempt = 0 /\ failedDraws = {}
    /\ portHolder = "nobody"
    /\ host = FirstRun
    /\ release = NotRead
    /\ installer = NotInstalling
    /\ prompt = NotPrompting
    /\ sshPort \in ConfigPorts
    /\ sshdConfig \in ConfigFiles

\* one call of configureSSHPort
Configure ==
    /\ pc = "configure"
    /\ \E r \in configureSSHPort(sshPort, sshdConfig) :
          /\ log' = log \o r.log
          /\ sshdConfig' = r.file
    /\ pc' = "configured"
    /\ UNCHANGED <<exitCode, proc, step, suggestedPort, sshPort, container, stdout, attempt,
                   failedDraws, portHolder>>
    /\ UNCHANGED setupFrame

SpecConfig == InitConfig /\ [][Configure]_vars

(***************************************************************************)
(* parseOSRelease on its own: a release-metadata file is given to it once   *)
(***************************************************************************)
\* the cutset of strings.Trim(parts[1], "\"'")
Quotes == {"\"", "'"}

RECURSIVE TrimLeftCut(_, _)
TrimLeftCut(s, cutset) ==
    IF s # <<>> /\ Head(s) \in cutset THEN TrimLeftCut(Tail(s), cutset) ELSE s

RECURSIVE TrimRightCut(_, _)
TrimRightCut(s, cutset) ==
    IF s # <<>> /\ s[Len(s)] \in cutset
    THEN TrimRightCut(SubSeq(s, 1, Len(s) - 1), cutset) ELSE s

\* strings.Trim
Trim(s, cutset) == TrimRightCut(TrimLeftCut(s, cutset), cutset)

\* strings.SplitN(line, sep, 2) for a separator of one character
SplitN(line, sep) ==
    IF \E i \in DOMAIN line : line[i] = sep
    THEN LET at == CHOOSE i \in DOMAIN line :
                       line[i] = sep /\ \A j \in 1..(i - 1) : line[j] # sep
         IN  <<SubSeq(line, 1, at - 1), SubSeq(line, at + 1, Len(line))>>
    ELSE <<line>>

\* result[key] = value
Put(result, key, value) ==
    [k \in DOMAIN result \cup {key} |-> IF k = key THEN value ELSE result[k]]

\* a mutation of parseOSRelease: a key that is already in the map keeps its
\* value
RECURSIVE parseOSReleaseKeepsFirst(_, _, _)
parseOSReleaseKeepsFirst(lines, i, result) ==
    IF i > Len(lines) THEN result
    ELSE LET line  == TrimSpace(lines[i])
             parts == SplitN(line, "=")
         IN  IF line = <<>> \/ HasPrefix(line, <<"#">>)
             THEN parseOSReleaseKeepsFirst(lines, i + 1, result)
             ELSE IF Len(parts) # 2
             THEN parseOSReleaseKeepsFirst(lines, i + 1, result)
             ELSE IF parts[1] \in DOMAIN result
             THEN parseOSReleaseKeepsFirst(lines, i + 1, result)
             ELSE parseOSReleaseKeepsFirst(lines, i + 1,
                      Put(result, parts[1], Trim(parts[2], Quotes)))

\* the scanner loop of parseOSRelease from line i on, result being the map so
\* far
RECURSIVE parseOSRelease(_, _, _)
parseOSRelease(lines, i, result) ==
    IF i > Len(lines) THEN result
    ELSE LET line  == TrimSpace(lines[i])
             parts == SplitN(line, "=")
         IN  IF line = <<>> \/ HasPrefix(line, <<"#">>)
             THEN parseOSRelease(lines, i + 1, result)
             ELSE IF Len(parts) # 2
             THEN parseOSRelease(lines, i + 1, result)
             ELSE parseOSRelease(lines, i + 1,
                      Put(result, parts[1], Trim(parts[2], Quotes)))

MaxReleaseLines == 3

\* the lines a release-metadata file is made of here: plain, quoted with
\* either quote, padded, a comment, an indented comment, an empty and a blank
\* line, a line without "=", values that hold "=", a quote or a blank, a key
\* that ends with a blank and an empty key
ReleaseLines ==
    { <<"I","=","a">>,
      <<"I","=","b">>,
      <<"I","=","\"","a","\"">>,
      <<"N","=","'","b"," ","'">>,
      <<" ","I","=","a"," ">>,
      <<"V","=","a","=","\"","b">>,
      <<"#","I","=","c">>,
      <<" ","#","c">>,
      <<>>,
      <<" ">>,
      <<"I">>,
      <<"I"," ","=","'","\"","c","'">>,
      <<"=","a">> }

ReleaseFiles == UNION {[1..n -> ReleaseLines] : n \in 0..MaxReleaseLines}

InitParse ==
    /\ goos = "linux" /\ goarch = "amd64" /\ osRelease = Absent /\ path = {}
    /\ platform = InitialInfo(goarch)
    /\ probes = <<>>
    /\ ppc = "start"
    /\ opts = [RegistryPort |-> 0, NoFirewall |-> FALSE, NoSSH |-> FALSE]
    /\ suggestedPort = 0 /\ sshPort = 0
    /\ container = [out |-> <<>>, hostPort |-> 0]
    /\ stdout = <<>> /\ attempt = 0 /\ failedDraws = {}
    /\ portHolder = "nobody"
    /\ sshdConfig = DefaultConfig
    /\ host = FirstRun
    /\ uidRoot = TRUE /\ repair = FALSE /\ results = <<>> /\ issues = 0 /\ repairErrors = 0
    /\ proc = NoProc /\ step = 0 /\ exitCode = 0 /\ outcomes = <<>> /\ log = <<>>
    /\ pc = "parse"
    /\ installer = NotInstalling
    /\ prompt = NotPrompting
    /\ release \in {[lines |-> f, err |-> FALSE, parsed |-> FALSE, result |-> NotRead.result] :
                       f \in ReleaseFiles}

\* one call of parseOSRelease: the scanner delivers the first n lines; with
\* fewer than all of them the open or a read has failed, and the map made so
\* far is returned with the error
Parse ==
    /\ pc = "parse"
    /\ \E n \in 0..Len(release.lines) :
          release' = [release EXCEPT
                         !.parsed = TRUE,
                         !.err    = n < Len(release.lines),
                         !.result = parseOSRelease(SubSeq(release.lines, 1, n), 1,
                                                   NotRead.result)]
    /\ pc' = "parsed"
    /\ UNCHANGED <<goos, goarch, osRelease, path, platform, probes, ppc>>
    /\ UNCHANGED <<uidRoot, repair, results, issues, repairErrors, proc, step, exitCode,
                   outcomes, log>>
    /\ UNCHANGED <<opts, suggestedPort, sshPort, container, stdout, attempt, failedDraws,
                   portHolder, sshdConfig, host, installer, prompt>>

SpecParse == InitParse /\ [][Parse]_vars

(***************************************************************************)
(* install.sh: detect_package_manager, run in the environment in which     *)
(* the program is run afterwards                                           *)
(***************************************************************************)
\* the characters of an ID, for LINUX_DISTRO="${ID_LIKE:-$LINUX_DISTRO_ID}"
IdChars(id) ==
    CASE id = "debian" -> <<"d","e","b","i","a","n">>
      [] id = "fedora" -> <<"f","e","d","o","r","a">>
      [] id = "manjaro" -> <<"m","a","n","j","a","r","o">>
      [] id = "nixos" -> <<"n","i","x","o","s">>
      [] OTHER -> <<>>

\* detect_linux_distro on a host whose only release file is /etc/os-release,
\* if it has one
detect_linux_distro(osr) ==
    IF osr.err
    THEN [LINUX_DISTRO_ID |-> "", LINUX_DISTRO |-> <<>>]
    ELSE [LINUX_DISTRO_ID |-> osr.ID,
          LINUX_DISTRO |-> IF osr.ID_LIKE # <<>> THEN osr.ID_LIKE ELSE IdChars(osr.ID)]

\* the executable looked for by the first case of
\* detect_package_manager_for_distro; "" when no pattern matches the ID
ExecutableOfID(id) ==
    CASE id \in {"debian", "ubuntu", "linuxmint", "pop", "elementary", "zorin", "kali",
                 "raspbian", "neon"} -> "apt-get"
      [] id \in {"fedora", "rhel", "centos", "rocky", "almalinux", "ol", "amzn"} -> "dnf"
      [] id \in {"arch", "manjaro", "endeavouros", "garuda", "artix"} -> "pacman"
      [] id \in {"opensuse", "opensuse-leap", "opensuse-tumbleweed", "sles"} -> "zypper"
      [] id = "alpine" -> "apk"
      [] id = "gentoo" -> "emerge"
      [] id = "void" -> "xbps-install"
      [] OTHER -> ""

\* the executable looked for by its second case, on LINUX_DISTRO
ExecutableOfFamily(like) ==
    IF Contains(like, <<"d","e","b","i","a","n">>) \/ Contains(like, <<"u","b","u","n","t","u">>)
    THEN "apt-get"
    ELSE IF Contains(like, <<"f","e","d","o","r","a">>) \/ Contains(like, <<"r","h","e","l">>)
    THEN "dnf"
    ELSE IF Contains(like, <<"a","r","c","h">>)
    THEN "pacman"
    ELSE IF Contains(like, <<"s","u","s","e">>)
    THEN "zypper"
    ELSE ""

detect_package_manager_for_distro(d, p) ==
    LET first  == ExecutableOfID(d.LINUX_DISTRO_ID)
        second == ExecutableOfFamily(d.LINUX_DISTRO)
        tried1 == IF first = "" THEN <<>> ELSE <<first>>
        tried2 == IF second = "" THEN <<>> ELSE <<second>>
    IN  IF first # "" /\ CommandExists(first, p)
        THEN [pm |-> ManagerOf(first), probes |-> tried1]
        ELSE IF second # "" /\ CommandExists(second, p)
        THEN [pm |-> ManagerOf(second), probes |-> tried1 \o tried2]
        ELSE [pm |-> "unknown", probes |-> tried1 \o tried2]

\* the distribution-specific managers in order, then snap and flatpak
detect_package_manager_fallback(p) == FirstExisting(LinuxFallbackChain, p, 1)

\* a mutation of detect_package_manager: AUTARK_PKG_MGR is not looked at
detect_package_manager_without_override(override, g, osr, p) ==
    LET r == CASE g = "linux" ->
                     LET d == detect_package_manager_for_distro(detect_linux_distro(osr), p)
                         f == detect_package_manager_fallback(p)
                     IN  IF d.pm # "unknown" THEN d
                         ELSE [pm |-> f.pm, probes |-> d.probes \o f.probes]
               [] g = "darwin" -> FirstExisting(<<"brew", "port">>, p, 1)
               [] g \in {"freebsd", "netbsd", "openbsd", "dragonfly"} ->
                     FirstExisting(<<"pkg">>, p, 1)
               [] OTHER -> [pm |-> "unknown", probes |-> <<>>]
    IN  [PKG_MGR |-> IF r.pm = "unknown" THEN "" ELSE r.pm, probes |-> r.probes]

\* detect_package_manager: PKG_MGR and the `command -v` probes made; with an
\* empty PKG_MGR the script exits
detect_package_manager(override, g, osr, p) ==
    IF override # ""
    THEN [PKG_MGR |-> override, probes |-> <<>>]
    ELSE LET r == CASE g = "linux" ->
                          LET d == detect_package_manager_for_distro(detect_linux_distro(osr), p)
                              f == detect_package_manager_fallback(p)
                          IN  IF d.pm # "unknown" THEN d
                              ELSE [pm |-> f.pm, probes |-> d.probes \o f.probes]
                    [] g = "darwin" -> FirstExisting(<<"brew", "port">>, p, 1)
                    [] g \in {"freebsd", "netbsd", "openbsd", "dragonfly"} ->
                          FirstExisting(<<"pkg">>, p, 1)
                    [] OTHER -> [pm |-> "unknown", probes |-> <<>>]
         IN  [PKG_MGR |-> IF r.pm = "unknown" THEN "" ELSE r.pm, probes |-> r.probes]

\* values of AUTARK_PKG_MGR: not set, two documented managers, and one that
\* is none
Overrides == {"", "apt", "zypper", "yum"}

\* the systems install.sh gets as far as detect_package_manager on
InstallerGoos == {"linux", "darwin", "freebsd", "netbsd"}

InstallerOsReleases ==
    {Absent,
     [err |-> FALSE, ID |-> "debian", ID_LIKE |-> <<>>],
     [err |-> FALSE, ID |-> "fedora", ID_LIKE |-> <<>>],
     [err |-> FALSE, ID |-> "manjaro", ID_LIKE |-> <<"a","r","c","h">>],
     [err |-> FALSE, ID |-> "nixos", ID_LIKE |-> <<>>]}

InitOverride ==
    /\ goos \in InstallerGoos
    /\ goarch = "amd64"
    /\ osRelease \in (IF goos = "linux" THEN InstallerOsReleases ELSE {Absent})
    /\ path \in Paths
    /\ platform = InitialInfo(goarch)
    /\ probes = <<>>
    /\ ppc = "start"
    /\ DoctorIdle
    /\ opts = [RegistryPort |-> 0, NoFirewall |-> FALSE, NoSSH |-> FALSE]
    /\ suggestedPort = 0 /\ sshPort = 0
    /\ container = [out |-> <<>>, hostPort |-> 0]
    /\ stdout = <<>> /\ attempt = 0 /\ failedDraws = {}
    /\ portHolder = "nobody"
    /\ sshdConfig = DefaultConfig
    /\ host = FirstRun
    /\ release = NotRead
    /\ prompt = NotPrompting
    /\ installer \in {[AUTARK_PKG_MGR |-> o, PKG_MGR |-> "", probes |-> <<>>, pc |-> "start"] :
                         o \in Overrides}

\* install.sh calls detect_package_manager
InstallerDetect ==
    /\ installer.pc = "start"
    /\ LET r == detect_package_manager(installer.AUTARK_PKG_MGR, goos, osRelease, path)
       IN  installer' = [installer EXCEPT !.PKG_MGR = r.PKG_MGR,
                                          !.probes = r.probes,
                                          !.pc = IF r.PKG_MGR = "" THEN "exit" ELSE "done"]
    /\ UNCHANGED platformVars
    /\ UNCHANGED doctorVars
    /\ UNCHANGED <<opts, suggestedPort, sshPort, container, stdout, attempt, failedDraws,
                   portHolder, sshdConfig, host, release, prompt>>

NextOverride ==
    \/ InstallerDetect
    \/ DetectOS
    \/ DetectLinuxDistro
    \/ DetectLinuxPackageManager
    \/ DetectDarwinPackageManager
    \/ DetectBSDPackageManager

SpecOverride == InitOverride /\ [][NextOverride]_vars

(***************************************************************************)
(* PromptYesNo on its own, called with either default                      *)
(***************************************************************************)
\* the largest number of lines one call of PromptYesNo reads
MaxPrompts == 3

\* what reader.ReadString('\n') may return to PromptYesNo: the lines of
\* YesNoInputs and two more answers that are neither yes nor no
PromptInputs ==
    YesNoInputs \cup [err : {FALSE}, text : {<<"Y","E","S","\n">>, <<"j","a","\n">>,
                                             <<"y","e","s"," ","\n">>}]

InitPrompt ==
    /\ goos = "linux" /\ goarch = "amd64" /\ osRelease = Absent /\ path = {}
    /\ platform = DetectPlatform("linux", "amd64", Absent, {}).info
    /\ probes = DetectPlatform("linux", "amd64", Absent, {}).probes
    /\ ppc = "done"
    /\ uidRoot = TRUE /\ repair = FALSE /\ results = <<>> /\ issues = 0 /\ repairErrors = 0
    /\ proc = NoProc /\ step = 0 /\ exitCode = 0 /\ outcomes = <<>> /\ log = <<>>
    /\ pc = "prompt"
    /\ opts = [RegistryPort |-> 0, NoFirewall |-> FALSE, NoSSH |-> FALSE]
    /\ suggestedPort = 0 /\ sshPort = 0
    /\ container = [out |-> <<>>, hostPort |-> 0]
    /\ stdout = <<>> /\ attempt = 0 /\ failedDraws = {}
    /\ portHolder = "nobody"
    /\ sshdConfig = DefaultConfig
    /\ host = FirstRun
    /\ release = NotRead
    /\ installer = NotInstalling
    /\ prompt \in {[defaultYes |-> d, read |-> <<>>, done |-> FALSE, value |-> FALSE] :
                      d \in BOOLEAN}

\* one pass of the loop of PromptYesNo: a line is read, and the call returns
\* or goes round again
ReadAnswer ==
    /\ pc = "prompt"
    /\ Len(prompt.read) < MaxPrompts
    /\ \E in \in PromptInputs :
          LET r == PromptYesNo(in, prompt.defaultYes)
          IN  /\ prompt' = [prompt EXCEPT !.read = Append(@, in),
                                          !.done = r.done,
                                          !.value = r.value]
              /\ pc' = IF r.done THEN "prompted" ELSE "prompt"
    /\ UNCHANGED platformVars
    /\ UNCHANGED <<uidRoot, repair, results, issues, repairErrors, proc, step, exitCode,
                   outcomes, log>>
    /\ UNCHANGED <<opts, suggestedPort, sshPort, container, stdout, attempt, failedDraws,
                   portHolder, sshdConfig, host, release, installer>>

SpecPrompt == InitPrompt /\ [][ReadAnswer]_vars

(***************************************************************************)
(* checkRegistryRunning on its own, on every status text                   *)
(***************************************************************************)
\* what `docker ps --format {{.Status}}` may print for the container
StatusTexts ==
    { StatusUp, StatusRestarting, <<>>, <<"\n">>,
      <<"U","p"," ","2"," ","h","o","u","r","s"," ","(","P","a","u","s","e","d",")","\n">>,
      <<"E","x","i","t","e","d"," ","(","0",")","\n">>,
      <<"C","r","e","a","t","e","d","\n">>,
      <<"u","p"," ","1"," ","s","\n">>,
      <<"U","P","\n">>,
      <<" ","U","p"," ","1"," ","s","\n">>,
      <<"U","\n">>,
      <<"S","u","p","\n">> }

InitStatus ==
    /\ goos = "linux" /\ goarch = "amd64" /\ osRelease = Absent /\ path = {}
    /\ platform = DetectPlatform("linux", "amd64", Absent, {}).info
    /\ probes = DetectPlatform("linux", "amd64", Absent, {}).probes
    /\ ppc = "done"
    /\ uidRoot = TRUE /\ repair = FALSE /\ results = <<>> /\ issues = 0 /\ repairErrors = 0
    /\ proc = NoProc /\ step = 0 /\ exitCode = 0 /\ outcomes = <<>> /\ log = <<>>
    /\ pc = "status"
    /\ opts = [RegistryPort |-> 5000, NoFirewall |-> FALSE, NoSSH |-> FALSE]
    /\ suggestedPort = 0 /\ sshPort = 0
    /\ container \in [out : StatusTexts, hostPort : RegistryPorts]
    /\ stdout = <<>> /\ attempt = 0 /\ failedDraws = {}
    /\ portHolder = "nobody"
    /\ sshdConfig = DefaultConfig
    /\ host = FirstRun
    /\ release = NotRead
    /\ installer = NotInstalling
    /\ prompt = NotPrompting

\* one call of checkRegistryRunning
CheckStatus ==
    /\ pc = "status"
    /\ \E r \in checkRegistryRunning(container) : log' = log \o r.log
    /\ pc' = "checked"
    /\ UNCHANGED <<exitCode, proc, step, suggestedPort, sshPort, container, stdout, attempt,
                   failedDraws, portHolder, sshdConfig>>
    /\ UNCHANGED setupFrame

SpecStatus == InitStatus /\ [][CheckStatus]_vars

(***************************************************************************)
(* Specification of the program: it is started with doctor or with setup   *)
(***************************************************************************)
InitProgram == Init \/ InitSetup

NextProgram == Next \/ NextSetup

SpecProgram == InitProgram /\ [][NextProgram]_vars

(***************************************************************************)
(* The install dispatch                                                    *)
(***************************************************************************)
\* the package-manager identifiers DetectPlatform can assign
RecognizedManagers == {ManagerOf(exe) : exe \in ManagerExecutables}

\* the commands repairGit has run
GitRuns == {j \in DOMAIN log : log[j].by = "repairGit" /\ log[j].op = "Run"}

\* C11: once repairGit has returned, it has run a non-empty install command
\* if the package manager is one of the 14 recognized identifiers, and it has
\* run nothing and returned an error for any other identifier.
C11_InstallDispatchTotal ==
    \A i \in DOMAIN outcomes :
        outcomes[i].target = "git" =>
            IF platform.PackageManager \in RecognizedManagers
            THEN \E j \in GitRuns : log[j].cmd # ""
            ELSE GitRuns = {} /\ ~outcomes[i].ok

\* the procedures that are selected by the package manager
ManagerSelected ==
    {"repairGit", "installDockerByPackageManager", "repairDockerDarwin", "repairDockerWindows",
     "repairDockerBSD", "installFirewallByPackageManager", "installSSHByPackageManager"}

\* the procedures that are selected by the Linux distribution family
FamilySelected ==
    {"installDockerDebian", "installDockerFedora", "installDockerArch", "installDockerAlpine",
     "installDockerOpenSUSE", "installDockerGentoo", "installDockerVoid",
     "installFirewallDebian", "installFirewallFedora", "installFirewallArch",
     "installFirewallAlpine", "installFirewallOpenSUSE", "installFirewallGentoo",
     "installFirewallVoid",
     "installSSHDebian", "installSSHFedora", "installSSHArch", "installSSHAlpine",
     "installSSHOpenSUSE", "installSSHGentoo", "installSSHVoid"}

\* the procedures in `names` have run no command
NoRunBy(names) == \A j \in DOMAIN log : log[j].op = "Run" => log[j].by \notin names

\* runSetup has reported the installation of a firewall, of an SSH server
FirewallInstalled == \E k \in DOMAIN stdout : stdout[k].text = "Firewall installed successfully."
SSHInstalled ==
    \E k \in DOMAIN stdout : stdout[k].text = "SSH server installed successfully on port"

FamilySuffix(distro) ==
    CASE distro \in {"debian", "ubuntu"} -> "Debian"
      [] distro \in {"fedora", "rhel", "centos"} -> "Fedora"
      [] distro = "arch" -> "Arch"
      [] distro = "alpine" -> "Alpine"
      [] distro = "opensuse" -> "OpenSUSE"
      [] distro = "gentoo" -> "Gentoo"
      [] distro = "void" -> "Void"
      [] OTHER -> ""

\* the procedures defined for a Linux family: none for git
FamilyProcedures(distro) ==
    IF FamilySuffix(distro) = "" THEN {}
    ELSE {"installDocker" \o FamilySuffix(distro), "installFirewall" \o FamilySuffix(distro),
          "installSSH" \o FamilySuffix(distro)}

\* C13: every command of a git, docker, firewall or SSH procedure is run by
\* the procedure of the detected Linux family if the target has one for that
\* family, and otherwise by a procedure that is selected by the package
\* manager; the procedures of macOS and Windows run on that OS only.
C13_SameSelectionRule ==
    \A j \in DOMAIN log :
        /\ log[j].op = "Run" /\ log[j].by \in ManagerSelected \cup FamilySelected =>
              IF platform.OS = "linux" /\ FamilyProcedures(platform.LinuxDistro) # {}
                 /\ log[j].by # "repairGit"
              THEN log[j].by \in FamilyProcedures(platform.LinuxDistro)
              ELSE log[j].by \in ManagerSelected
        /\ log[j].by = "installSSHDarwin" => platform.OS = "darwin"
        /\ log[j].by = "installSSHWindows" => platform.OS = "windows"

\* setup has installed the firewall and the SSH server of a Fedora-family
\* host, each with the procedure of the family
C13_Witness ==
    /\ \E j \in DOMAIN log : log[j].op = "Run" /\ log[j].by = "installFirewallFedora"
    /\ \E j \in DOMAIN log : log[j].op = "Run" /\ log[j].by = "installSSHFedora"

(***************************************************************************)
(* The registry                                                            *)
(***************************************************************************)
PsCommand == "docker ps --filter name=autark-registry --format {{.Status}}"

\* what the running-checks returned, in order
IsReturn(e) == e.op = "Return" /\ e.by = "checkRegistryRunning"
RunningChecks == SelectSeq(log, IsReturn)

\* the positions of the successful `docker ps` runs in the log
PsRuns == {j \in DOMAIN log : log[j].cmd = PsCommand /\ log[j].ok}

\* a command of installRegistry was run
RegistryTouched == \E j \in DOMAIN log : log[j].by = "installRegistry"

\* C14: once the first running-check has listed the container with a status
\* that begins with "Up", setup has ended with exit code 0 and has run
\* neither docker rm nor docker run.
C14_RunningRegistryIsLeftAlone ==
    Cardinality(PsRuns) = 1 /\ container.out = StatusUp /\ ~Called("installRegistry")
        => pc = "done" /\ exitCode = 0 /\ ~RegistryTouched

\* setup has ended on a host whose registry container was up
C14_Witness ==
    /\ pc = "done" /\ exitCode = 0
    /\ container.out = StatusUp
    /\ Said("Docker registry is already running on port")
    /\ ~RegistryTouched

\* C15: setup reports the registry as already running on the requested port
\* only if the container is published on that host port.
C15_RunningOnRequestedPort ==
    \A k \in DOMAIN stdout :
        stdout[k].text = "Docker registry is already running on port"
            => container.hostPort = stdout[k].port /\ stdout[k].port = opts.RegistryPort

\* the entries of installRegistry in the log
RegistryRuns == {j \in DOMAIN log : log[j].by = "installRegistry" /\ log[j].op = "Run"}

\* C16: setup ends with exit code 0 only if the last running-check returned
\* true; installRegistry is entered after a check that returned false, runs
\* docker rm -f and then, whatever that gave, docker run with --restart=always
\* on the requested host port; a failed docker run ends setup with exit code 1,
\* a successful one is followed by the second check, and a second check that
\* does not return true ends setup with exit code 1.
C16_RegistryInstallAndVerify ==
    LET checks == RunningChecks
    IN /\ pc = "done" /\ exitCode = 0 => checks # <<>> /\ checks[Len(checks)].ok
       /\ Len(checks) <= 2
       /\ Len(checks) = 2 /\ ~checks[2].ok => pc = "done" /\ exitCode = 1
       /\ \A j \in RegistryRuns :
             \/ /\ log[j].idx = 1
                /\ log[j].cmd = "docker rm -f autark-registry"
                /\ log[j - 1] = Ev("Call", "installRegistry", TRUE, "runSetup", 0)
                /\ log[j - 2] = Ev("Return", "not running", FALSE, "checkRegistryRunning", 0)
                /\ j + 1 \in RegistryRuns
             \/ /\ log[j].idx = 2
                /\ log[j].cmd = "docker run -d --name autark-registry --restart=always -p "
                                    \o ToString(opts.RegistryPort) \o ":5000 registry:2"
                /\ j - 1 \in RegistryRuns
                /\ IF log[j].ok
                   THEN /\ pc \in {"registryVerify", "done"}
                        /\ pc = "done" => Len(checks) = 2
                        /\ container.hostPort = opts.RegistryPort
                   ELSE j = Len(log) /\ pc = "done" /\ exitCode = 1

\* the registry was not running, was installed and was found running
C16_Witness ==
    /\ pc = "done" /\ exitCode = 0
    /\ Len(RunningChecks) = 2
    /\ RegistryRuns # {}

\* the results of checkFirewall and checkSSH in the log
Detections ==
    {j \in DOMAIN log : log[j].op = "Return" /\ log[j].by \in {"checkFirewall", "checkSSH"}}

\* the operator is asked about the target whose check returned at position j
Prompted(j) ==
    LET fw == log[j].by = "checkFirewall"
    IN IF j = Len(log)
       THEN pc = (IF fw THEN "firewallPrompt" ELSE "sshPrompt")
       ELSE /\ log[j + 1].op = "PromptYesNo"
            /\ log[j + 1].cmd = (IF fw THEN "Would you like to install a firewall?"
                                 ELSE "Would you like to install an SSH server?")

\* C17: after a detection of the firewall or of the SSH server the operator is
\* prompted exactly if the result is not satisfactory: the service is absent,
\* or it is present but not running.
C17_UnsatisfactoryDetectionPrompts ==
    \A j \in Detections : Prompted(j) <=> ~log[j].ok

\* the prompts in the log that were declined, that were confirmed
Declined == {j \in DOMAIN log : log[j].op = "PromptYesNo" /\ ~log[j].ok}
Confirmed == {j \in DOMAIN log : log[j].op = "PromptYesNo" /\ log[j].ok}
PrivilegeChecks == {j \in DOMAIN log : log[j].op = "IsRoot" /\ log[j].by = "runSetup"}

\* e is the first thing runSetup does for the SSH server, for the registry
StartsSSH(e) == e = Ev("Call", "checkSSH", TRUE, "runSetup", 0)
StartsRegistry(e) == e.op = "LookPath" /\ e.cmd = "docker" /\ e.by = "runSetup"

\* C18: a declined firewall or SSH prompt is followed at once by the next
\* target (the SSH server after the firewall, the registry after the SSH
\* server): no privilege check is made and nothing is installed for the
\* declined target, and runSetup does not exit there.
C18_DeclineSkipsTarget ==
    /\ Cardinality(PrivilegeChecks) <= Cardinality(Confirmed)
    /\ \A j \in Declined :
          LET fw == log[j].cmd = "Would you like to install a firewall?"
          IN /\ IF j = Len(log)
                THEN pc \in (IF fw /\ ~opts.NoSSH THEN {"ssh"}
                             ELSE IF fw THEN {"ssh", "registry"} ELSE {"registry"})
                ELSE IF fw /\ ~opts.NoSSH THEN StartsSSH(log[j + 1])
                                          ELSE StartsRegistry(log[j + 1])
             /\ IF fw
                THEN /\ ~FirewallInstalled
                     /\ Said("Skipping firewall installation.")
                ELSE /\ ~SSHInstalled /\ sshPort = 0 /\ suggestedPort = 0
                     /\ ~Called("generateRandomPort")
                     /\ Said("Skipping SSH server installation.")

\* both prompts were declined and runSetup went on to a running registry
C18_Witness ==
    /\ Cardinality(Declined) = 2
    /\ PrivilegeChecks = {}
    /\ pc = "done" /\ exitCode = 0

\* what runSetup does for a target once the privilege check is passed: the
\* call of an install procedure, the generation of a port, the availability
\* check of the chosen port, a step of a procedure, the rewrite of sshd_config
IsInstallAction(e) ==
    \/ /\ e.op = "Call" /\ e.by = "runSetup"
       /\ e.cmd \notin {"checkFirewall", "checkSSH", "installRegistry"}
    \/ e.op \in {"PromptPort", "Listen", "ReadFile", "WriteFile"}
    \/ e.op = "Run" /\ e.by \in ManagerSelected \cup FamilySelected
                                \cup {"installFirewall", "installSSHDarwin", "installSSHWindows"}

\* the last prompt in the log before position k, 0 if there is none
RECURSIVE LastPrompt(_)
LastPrompt(k) ==
    IF k = 0 THEN 0
    ELSE IF log[k].op = "PromptYesNo" THEN k ELSE LastPrompt(k - 1)

\* C19: a confirmed firewall or SSH prompt is followed by the privilege check,
\* and a check that finds no elevated privileges ends setup with exit code 1
\* on the spot: no install command, no port generation and no write of a
\* configuration file is made for a target without a passed privilege check.
C19_NoPrivilegesNoInstall ==
    /\ \A j \in Confirmed :
          IF j = Len(log) THEN pc \in {"firewallRoot", "sshRoot"} ELSE j + 1 \in PrivilegeChecks
    /\ \A j \in PrivilegeChecks :
          /\ j - 1 \in Confirmed
          /\ ~log[j].ok => /\ j = Len(log)
                           /\ pc = "done" /\ exitCode = 1
                           /\ attempt = 0 /\ failedDraws = {}
                           /\ suggestedPort = 0 /\ sshPort = 0
    /\ pc \in {"firewallInstall", "firewallStep", "generatePort", "promptPort",
                "validatePort", "sshInstall", "sshStep"}
          => \E j \in PrivilegeChecks : log[j].ok /\ j = LastPrompt(Len(log)) + 1
    /\ \A k \in DOMAIN log :
          IsInstallAction(log[k])
              => LET j == LastPrompt(k)
                 IN j \in Confirmed /\ j + 1 \in PrivilegeChecks /\ log[j + 1].ok

\* the SSH install was confirmed without elevated privileges
C19_Witness ==
    /\ pc = "done" /\ exitCode = 1
    /\ Len(log) \in PrivilegeChecks
    /\ ~log[Len(log)].ok
    /\ log[Len(log) - 1].cmd = "Would you like to install an SSH server?"

\* C20: the port that generateRandomPort returns is above 1024 and did not
\* fail the availability check that generateRandomPort made on it; it is a
\* drawn port that was found available, or, after maxAttempts failed draws,
\* the fallback port 2222.
C20_GeneratedPortPassedItsCheck ==
    /\ pc = "generatePort" => attempt <= maxAttempts
    /\ pc = "promptPort" =>
          /\ suggestedPort > 1024
          /\ suggestedPort \notin failedDraws
          /\ attempt = maxAttempts => suggestedPort = fallbackPort
          /\ attempt < maxAttempts => suggestedPort \in {minPort + r : r \in Intn(maxPort - minPort)}

\* the availability checks of the chosen port, the port prompts and the calls
\* of generateRandomPort in the log
Validations == {k \in DOMAIN log : log[k].op = "Listen" /\ log[k].by = "runSetup"}
PortPrompts == {k \in DOMAIN log : log[k].op = "PromptPort"}
Generations == {k \in DOMAIN log : log[k] = Ev("Call", "generateRandomPort", TRUE, "runSetup", 0)}

\* the names of the SSH install procedures
SSHProcedures ==
    {"installSSH", "installSSHLinux", "installSSHDarwin", "installSSHWindows",
     "installSSHByPackageManager", "installSSHDebian", "installSSHFedora", "installSSHArch",
     "installSSHAlpine", "installSSHOpenSUSE", "installSSHGentoo", "installSSHVoid"}
SSHCalls == {k \in DOMAIN log : log[k].op = "Call" /\ log[k].cmd \in SSHProcedures}

\* C21: the port the operator chose is checked for availability right after
\* the prompt and right before the SSH install procedure is called; a port
\* that is not available ends setup with exit code 1, with no SSH install
\* procedure called and no second draw or prompt.
C21_ChosenPortIsRevalidated ==
    /\ Cardinality(PortPrompts) <= 1 /\ Cardinality(Generations) <= 1
    /\ pc \in {"sshInstall", "sshStep"} => Validations # {}
    /\ \A k \in SSHCalls : k - 1 \in Validations /\ log[k - 1].ok
    /\ \A k \in Validations :
          /\ k - 1 \in PortPrompts
          /\ log[k].cmd = ToString(sshPort)
          /\ IF log[k].ok
             THEN IF k = Len(log) THEN pc = "sshInstall" ELSE k + 1 \in SSHCalls
             ELSE /\ k = Len(log)
                  /\ pc = "done" /\ exitCode = 1
                  /\ SSHCalls = {}
                  /\ attempt = 0
                  /\ ~SSHInstalled

\* the operator kept the suggested port, which was in use by then
C21_Witness ==
    /\ pc = "done" /\ exitCode = 1
    /\ Len(log) \in Validations
    /\ ~log[Len(log)].ok
    /\ sshPort = suggestedPort

\* C22: the availability check of the chosen port and the bind by the SSH
\* service are not atomic: runSetup does not hold the port once the check has
\* returned, checks it once, before the install procedure is called, and
\* never again, and reports the installation on the port it checked.
C22_CheckThenActWithoutLock ==
    /\ portHolder # "autark"
    /\ Cardinality(Validations) <= 1
    /\ \A k \in SSHCalls : \A j \in Validations : j < k
    /\ \A i \in DOMAIN stdout :
          stdout[i].text = "SSH server installed successfully on port"
              => /\ stdout[i].port = sshPort
                 /\ \E j \in Validations : log[j].ok /\ log[j].cmd = ToString(sshPort)

\* the port passed the check, another process bound it before the service was
\* started, and the SSH server is reported installed on that port
C22_Witness ==
    /\ \E j \in Validations : log[j].ok
    /\ portHolder = "other"
    /\ \E i \in DOMAIN stdout :
          stdout[i].text = "SSH server installed successfully on port" /\ stdout[i].port = sshPort

\* an active Port directive
IsPortDirective(line) == HasPrefix(TrimSpace(line), <<"P","o","r","t"," ">>)

\* the first line of a file that satisfies Test, 0 if there is none
FirstLine(lines, Test(_)) ==
    IF \E k \in DOMAIN lines : Test(lines[k])
    THEN CHOOSE k \in DOMAIN lines :
             Test(lines[k]) /\ \A j \in 1..(k - 1) : ~Test(lines[j])
    ELSE 0

\* new is old with 'Port p' in the place of line i, or in front of it if i = 0
Rewritten(old, new, i, p) ==
    IF i = 0
    THEN new = <<PortLine(p)>> \o old
    ELSE /\ Len(new) = Len(old)
         /\ new[i] = PortLine(p)
         /\ \A j \in DOMAIN old : j # i => new[j] = old[j]

\* configureSSHPort has returned nil in this step
ConfiguredNow ==
    /\ pc = "configure" /\ pc' = "configured"
    /\ \A k \in DOMAIN log' : log'[k].ok

\* C23 as stated: for a port other than 22 the rewrite puts 'Port p' in the
\* place of the existing Port directive, and in front of the first line if
\* the file has no Port directive; for port 22 the file is neither read nor
\* written.
C23_RewriteReplacesDirectiveOrPrepends ==
    [][ConfiguredNow =>
         IF sshPort = 22 THEN log' = <<>> /\ sshdConfig' = sshdConfig
         ELSE Rewritten(sshdConfig, sshdConfig', FirstLine(sshdConfig, IsPortDirective), sshPort)]_vars

\* C23, amended: for a port other than 22 the rewrite puts 'Port p' in the
\* place of the first line that is an active or a commented-out Port
\* directive ('Port ' or '#Port ' after trimming) and leaves the other lines
\* as they are, and puts it in front of the first line if there is no such
\* line; a failed read or write returns an error; for port 22 the file is
\* neither read nor written.
C23_RewriteReplacesFirstPortLine ==
    [][pc = "configure" /\ pc' = "configured" =>
         IF sshPort = 22 THEN log' = <<>> /\ sshdConfig' = sshdConfig
         ELSE /\ log' # <<>> /\ log'[1].op = "ReadFile"
              /\ ConfiguredNow =>
                    /\ Len(log') = 2 /\ log'[2].op = "WriteFile"
                    /\ Rewritten(sshdConfig, sshdConfig', FirstLine(sshdConfig, IsPortLine),
                                 sshPort)]_vars

\* a file with a commented-out Port line before the active one was rewritten
\* for port 8022
C23_Witness ==
    /\ pc = "configured"
    /\ Len(log) = 2 /\ log[2].ok
    /\ sshdConfig = <<PortLine(8022), <<"P","o","r","t"," ","2","2">>>>

\* the names of the firewall install procedures
FirewallProcedures ==
    {"installFirewall", "installFirewallLinux", "installFirewallByPackageManager",
     "installFirewallDebian", "installFirewallFedora", "installFirewallArch",
     "installFirewallAlpine", "installFirewallOpenSUSE", "installFirewallGentoo",
     "installFirewallVoid"}

\* the failed commands of the firewall and SSH install procedures in the log
FailedInstallRuns ==
    {k \in DOMAIN log : /\ log[k].op = "Run" /\ ~log[k].ok
                         /\ log[k].by \in FirewallProcedures \cup SSHProcedures}

\* the commands whose error the SSH procedures only warn about
ToleratedCommands ==
    {"ln -s /etc/sv/sshd /var/service/",
     "powershell Set-Content sshd_config Port " \o ToString(sshPort),
     "powershell New-NetFirewallRule -LocalPort " \o ToString(sshPort)}

\* C24 as stated: a failed command of the firewall or SSH installation does
\* not abort the sibling targets: when setup ends after such a failure, the
\* registry has been processed.
C24_FailedInstallDoesNotAbortSiblings ==
    pc = "done" /\ FailedInstallRuns # {} => \E k \in DOMAIN log : StartsRegistry(log[k])

\* C24, amended: the failure of a command of the firewall or SSH installation
\* ends setup with exit code 1 on the spot, and the sibling targets that come
\* after it are not processed; only the commands whose error the procedure
\* tolerates (the Void service link, the Windows port setting and firewall
\* rule) let setup go on.
C24_FailedInstallAbortsSetup ==
    \A k \in FailedInstallRuns :
        IF log[k].cmd \in ToleratedCommands
        THEN k = Len(log) => pc # "done" \/ exitCode = 0
        ELSE /\ k = Len(log)
             /\ pc = "done" /\ exitCode = 1
             /\ ~\E j \in DOMAIN log : StartsRegistry(log[j])
             /\ log[k].by \in FirewallProcedures => ~Called("checkSSH")

\* the firewall installation failed on a host whose SSH server and registry
\* were to be set up as well
C24_Witness ==
    /\ ~opts.NoSSH
    /\ pc = "done" /\ exitCode = 1
    /\ Len(log) \in FailedInstallRuns
    /\ log[Len(log)].by \in FirewallProcedures

\* the position in the log where setup was started for the second time
SecondStart == CHOOSE k \in DOMAIN log : log[k] = Ev("Call", "runSetup", TRUE, "main", 0)

\* an install, remove, create or configuration-write action of setup
IsChange(e) ==
    \/ e.op = "Run" /\ e.by \in FirewallProcedures \cup SSHProcedures \cup {"installRegistry"}
    \/ e.op = "Call" /\ e.cmd \in FirewallProcedures \cup SSHProcedures \cup {"installRegistry"}
    \/ e.op = "WriteFile"

\* the second run has changed nothing so far, and if it has ended, with 0
SecondRunChangesNothing ==
    /\ \A k \in DOMAIN log : k > SecondStart => ~IsChange(log[k])
    /\ pc = "done" => exitCode = 0

\* doctor --repair has ended on a host where every check passed
RepairWithNothingToDo == repair /\ pc = "done" /\ results # <<>> /\ issues = 0

\* doctor has called no repair and run no installing command
NothingRepaired ==
    /\ outcomes = <<>>
    /\ \A k \in DOMAIN log : log[k].op # "Call" /\ ~IsInstallOrStart(log[k])

\* C25 as stated: a setup run that follows a run with exit code 0 on the
\* unchanged host, with the same arguments, invokes no install, remove, create
\* or configuration-write action and ends with exit code 0; doctor --repair
\* on a host where every check passes calls no repair.
C25_SecondRunDoesNothing ==
    /\ host.ran => SecondRunChangesNothing
    /\ RepairWithNothingToDo => NothingRepaired /\ exitCode = 0

\* C25, amended: a setup run that follows a run with exit code 0 on the
\* unchanged host, with the same arguments, and in which the operator
\* confirms no prompt, invokes no install, remove, create or
\* configuration-write action and ends with exit code 0; doctor --repair on
\* a host where every check passes calls no repair.
C25_SecondRunWithoutConfirmationDoesNothing ==
    /\ host.ran /\ (\A k \in Confirmed : k < SecondStart) => SecondRunChangesNothing
    /\ RepairWithNothingToDo => NothingRepaired /\ exitCode = 0

\* the first run installed the firewall and the registry, the second run
\* found both and has ended
C25_Witness ==
    /\ host.ran /\ host.firewall = "present"
    /\ \E k \in DOMAIN log : k < SecondStart /\ IsChange(log[k]) /\ log[k].by = "installRegistry"
    /\ \E k \in DOMAIN log : k < SecondStart /\ IsChange(log[k]) /\ log[k].by \in FirewallProcedures
    /\ pc = "done" /\ exitCode = 0

\* the candidates of an OS in their fixed order
Candidates(g) ==
    CASE g = "linux" ->
             <<"apt-get", "dnf", "pacman", "zypper", "apk", "emerge", "xbps-install", "snap",
               "flatpak">>
      [] g = "darwin" -> <<"brew", "port">>
      [] g = "windows" -> <<"winget", "choco">>
      [] g \in {"freebsd", "netbsd", "openbsd", "dragonfly"} -> <<"pkg">>
      [] OTHER -> <<>>

\* the manager of the first candidate that exists on the host
FirstCandidate(order) ==
    LET found == {i \in DOMAIN order : order[i] \in path}
    IN IF found = {} THEN "unknown"
       ELSE LET first == CHOOSE i \in found : \A j \in found : i <= j
            IN IF order[first] = "apt-get" THEN "apt" ELSE order[first]

\* C26: without a known Linux family, and on the other systems, the package
\* manager is the first candidate of the fixed order that exists on the host,
\* and unknown if none exists or the OS is unknown; with only pacman and snap
\* on a Linux of unknown family it is pacman.
C26_FirstCandidateWins ==
    ppc = "done" /\ (goos = "linux" => platform.LinuxDistro = "unknown") =>
        /\ platform.PackageManager = FirstCandidate(Candidates(goos))
        /\ goos = "linux" /\ path = {"pacman", "snap"} => platform.PackageManager = "pacman"
        /\ goos = "linux" /\ platform.PackageManager \in {"snap", "flatpak"}
              => path \subseteq {"snap", "flatpak", "brew", "port", "pkg", "winget", "choco"}

\* a Linux of unknown family with pacman and snap was classified
C26_Witness ==
    /\ ppc = "done" /\ goos = "linux"
    /\ platform.LinuxDistro = "unknown"
    /\ path = {"pacman", "snap"}
    /\ platform.PackageManager = "pacman"

\* the static table of the recognized ids
FamilyTable ==
    [id \in {"debian"} |-> "debian"]
    @@ [id \in {"ubuntu", "linuxmint", "pop", "elementary", "zorin", "kali", "raspbian", "neon"}
          |-> "ubuntu"]
    @@ [id \in {"fedora"} |-> "fedora"]
    @@ [id \in {"rhel", "rocky", "almalinux", "ol", "amzn"} |-> "rhel"]
    @@ [id \in {"centos"} |-> "centos"]
    @@ [id \in {"arch", "manjaro", "endeavouros", "garuda", "artix"} |-> "arch"]
    @@ [id \in {"alpine"} |-> "alpine"]
    @@ [id \in {"opensuse", "opensuse-leap", "opensuse-tumbleweed", "sles"} |-> "opensuse"]
    @@ [id \in {"gentoo"} |-> "gentoo"]
    @@ [id \in {"void"} |-> "void"]

\* /etc/os-release was read and the family is set
FamilyResolved == goos = "linux" /\ ~osRelease.err /\ ppc \notin {"start", "distro"}

\* ID_LIKE names the family
Like(name) == Contains(osRelease.ID_LIKE, name)

\* what both readings of C27 say of the recognized ids and of the manager
TableDecides ==
    /\ osRelease.ID \in DOMAIN FamilyTable => platform.LinuxDistro = FamilyTable[osRelease.ID]
    /\ osRelease.ID \in {"ubuntu", "linuxmint", "pop", "kali"} => platform.LinuxDistro = "ubuntu"
    /\ osRelease.ID \in {"rocky", "almalinux", "amzn"} =>
          /\ platform.LinuxDistro = "rhel"
          /\ ppc = "done" /\ "dnf" \in path => platform.PackageManager = "dnf"
    /\ platform.LinuxDistroID = osRelease.ID

\* C27 as stated: a recognized ID fixes the family through the table whatever
\* ID_LIKE is; for an unrecognized ID an ID_LIKE that contains "rhel" gives
\* the fedora family.
C27_FamilyFromIdThenIdLike ==
    FamilyResolved =>
        /\ TableDecides
        /\ osRelease.ID \notin DOMAIN FamilyTable /\ Like(<<"r","h","e","l">>)
              => platform.LinuxDistro = "fedora"

\* C27, amended: a recognized ID fixes the family through the table whatever
\* ID_LIKE is; for an unrecognized ID the family is the first of debian (ID_LIKE
\* contains "debian" or "ubuntu"), fedora ("fedora" or "rhel"), arch ("arch"),
\* opensuse ("suse") whose name ID_LIKE contains, and unknown if it contains
\* none: an ID_LIKE that contains "rhel" and neither "debian" nor "ubuntu"
\* gives the fedora family.
C27_FamilyFromIdThenFirstIdLikeMatch ==
    FamilyResolved =>
        /\ TableDecides
        /\ osRelease.ID \notin DOMAIN FamilyTable =>
              LET debian == Like(<<"d","e","b","i","a","n">>) \/ Like(<<"u","b","u","n","t","u">>)
                  fedora == Like(<<"f","e","d","o","r","a">>) \/ Like(<<"r","h","e","l">>)
                  arch == Like(<<"a","r","c","h">>)
                  suse == Like(<<"s","u","s","e">>)
              IN /\ debian => platform.LinuxDistro = "debian"
                 /\ ~debian /\ fedora => platform.LinuxDistro = "fedora"
                 /\ ~debian /\ ~fedora /\ arch => platform.LinuxDistro = "arch"
                 /\ ~debian /\ ~fedora /\ ~arch /\ suse => platform.LinuxDistro = "opensuse"
                 /\ ~debian /\ ~fedora /\ ~arch /\ ~suse => platform.LinuxDistro = "unknown"

\* almalinux with an ID_LIKE that names debian, and dnf on the host
C27_Witness ==
    /\ ppc = "done" /\ goos = "linux" /\ ~osRelease.err
    /\ osRelease.ID = "almalinux"
    /\ Like(<<"d","e","b","i","a","n">>)
    /\ platform.LinuxDistro = "rhel"
    /\ platform.PackageManager = "dnf"

\* the probes of the fallback chain on a host: the candidates up to the first
\* one that exists
FallbackProbes ==
    LET order == Candidates("linux")
        found == {i \in DOMAIN order : order[i] \in path}
    IN IF found = {} THEN order
       ELSE SubSeq(order, 1, CHOOSE i \in found : \A j \in found : i <= j)

\* C28: when /etc/os-release cannot be opened or read on Linux, DetectPlatform
\* goes on without an error: the family stays unknown and the raw id empty,
\* and the package manager is the one the fallback chain finds.
C28_NoMetadataMeansFallback ==
    goos = "linux" /\ osRelease.err =>
        /\ platform.LinuxDistro = "unknown"
        /\ platform.LinuxDistroID = ""
        /\ ppc \in {"start", "distro", "pkgmgr", "done"}
        /\ ppc = "done" =>
              /\ platform.OS = "linux"
              /\ platform.PackageManager = FirstCandidate(Candidates("linux"))
              /\ probes = FallbackProbes

\* a read of /etc/os-release failed after ID=debian on a host with zypper and
\* flatpak
C28_Witness ==
    /\ ppc = "done" /\ goos = "linux"
    /\ osRelease = Unreadable
    /\ path = {"zypper", "flatpak"}
    /\ platform.PackageManager = "zypper"
    /\ platform.LinuxDistro = "unknown"

\* the line is neither empty nor a comment and holds a "="
Yields(line) ==
    LET t == TrimSpace(line)
    IN  t # <<>> /\ t[1] # "#" /\ \E i \in DOMAIN t : t[i] = "="

\* what stands before the first "=" of the line
KeyOf(line) ==
    LET t == TrimSpace(line)
    IN  CHOOSE k \in {SubSeq(t, 1, n) : n \in 0..Len(t)} :
            /\ \A i \in DOMAIN k : k[i] # "="
            /\ Len(k) < Len(t) /\ t[Len(k) + 1] = "="

\* what stands after the first "=" of the line
RawValueOf(line) ==
    LET t == TrimSpace(line)
    IN  SubSeq(t, Len(KeyOf(line)) + 2, Len(t))

\* v is raw without the quote characters at its two ends
Unquoted(v, raw) ==
    /\ v = <<>> \/ (v[1] \notin Quotes /\ v[Len(v)] \notin Quotes)
    /\ \E a, b \in 0..Len(raw) :
          /\ a + b <= Len(raw)
          /\ v = SubSeq(raw, a + 1, Len(raw) - b)
          /\ \A j \in 1..a : raw[j] \in Quotes
          /\ \A j \in (Len(raw) - b + 1)..Len(raw) : raw[j] \in Quotes

\* the last line of the file that yields the key
LastWith(lines, key) ==
    CHOOSE i \in DOMAIN lines :
        /\ Yields(lines[i]) /\ KeyOf(lines[i]) = key
        /\ \A j \in DOMAIN lines : Yields(lines[j]) /\ KeyOf(lines[j]) = key => j <= i

\* no two lines of the file yield the same key
DistinctKeys(lines) ==
    \A i, j \in DOMAIN lines :
        Yields(lines[i]) /\ Yields(lines[j]) /\ KeyOf(lines[i]) = KeyOf(lines[j]) => i = j

\* the orders in which the elements of a set can be written down
Orderings(S) ==
    {f \in [1..Cardinality(S) -> S] : \A i, j \in DOMAIN f : f[i] = f[j] => i = j}

\* a map written as a file of key=value lines in the given order of its keys,
\* each value between two copies of quote (a quote character, or nothing)
Render(m, order, quote) ==
    [i \in DOMAIN order |-> order[i] \o <<"=">> \o quote \o m[order[i]] \o quote]

\* the renderings of a map: its values in double quotes, in single quotes,
\* and bare when no value ends with a blank
Renderings(m) ==
    {Render(m, order, <<q>>) : order \in Orderings(DOMAIN m), q \in Quotes}
    \cup (IF \A k \in DOMAIN m : TrimRight(m[k]) = m[k]
          THEN {Render(m, order, <<>>) : order \in Orderings(DOMAIN m)}
          ELSE {})

\* C29: when parseOSRelease has read a whole file, the keys of its map are
\* those of the lines that are neither empty nor comments and hold a "=",
\* each key has the unquoted value of the last line that yields it, every
\* reordering of a file whose lines yield distinct keys gives the same map,
\* and parsing a rendering of the map gives the map again
C29_ParseLastWinsOrderFreeIdempotent ==
    release.parsed /\ ~release.err =>
        LET lines == release.lines
            m     == release.result
        IN  /\ DOMAIN m = {KeyOf(lines[i]) : i \in {j \in DOMAIN lines : Yields(lines[j])}}
            /\ \A k \in DOMAIN m : Unquoted(m[k], RawValueOf(lines[LastWith(lines, k)]))
            /\ DistinctKeys(lines) =>
                  \A q \in Orderings(DOMAIN lines) :
                      parseOSRelease([i \in DOMAIN lines |-> lines[q[i]]], 1, NotRead.result) = m
            /\ \A file \in Renderings(m) : parseOSRelease(file, 1, NotRead.result) = m

\* a quoted value, a comment and a second line with the same key: the map has
\* the value of the second line
C29_Witness ==
    /\ release.parsed /\ ~release.err
    /\ release.lines = << <<"I","=","\"","a","\"">>, <<"#","I","=","c">>, <<"I","=","b">> >>
    /\ DOMAIN release.result = {<<"I">>}
    /\ release.result[<<"I">>] = <<"b">>

\* the os_kind of each reported OS name
KindOf(g) ==
    IF g \in {"linux", "darwin", "windows"} THEN g
    ELSE IF g \in {"freebsd", "netbsd", "openbsd", "dragonfly"} THEN "freebsd"
    ELSE "unknown"

\* C30: DetectPlatform can always take its next step until it returns, the
\* OS of the profile is the kind of the reported name once the switch has
\* been entered (unknown for a name that is not in the switch, with no probe
\* made and no manager), Arch is runtime.GOARCH throughout, and the family is
\* unknown and the raw id empty whenever the OS is not linux
C30_ClassificationIsTotal ==
    /\ ppc \in {"start", "distro", "pkgmgr", "done"}
    /\ ppc # "done" => ENABLED NextPlatform
    /\ ppc # "start" => platform.OS = KindOf(goos)
    /\ ppc = "done" /\ KindOf(goos) = "unknown" =>
          platform.PackageManager = "unknown" /\ probes = <<>>
    /\ platform.Arch = goarch
    /\ platform.OS # "linux" =>
          platform.LinuxDistro = "unknown" /\ platform.LinuxDistroID = ""

\* DetectPlatform has returned for a BSD name that is not freebsd on an arm64
\* build, and for a name that is not in the switch
C30_Witness ==
    /\ ppc = "done" /\ goarch = "arm64"
    /\ \/ goos = "netbsd" /\ platform.OS = "freebsd" /\ platform.PackageManager = "pkg"
       \/ goos = "plan9" /\ platform.OS = "unknown"

\* AUTARK_PKG_MGR is set in the environment
OverrideSet == installer.AUTARK_PKG_MGR # ""

\* C31 as stated: with the override set, the package manager of the
\* PlatformInfo is the override and DetectPlatform makes no probe
C31_OverrideBypassesDetection ==
    OverrideSet /\ ppc = "done" =>
        platform.PackageManager = installer.AUTARK_PKG_MGR /\ probes = <<>>

\* C31, amended: with the override set, PKG_MGR of install.sh is the override
\* and install.sh makes no probe, whereas the PlatformInfo DetectPlatform
\* returns and the probes it makes are those of auto-detection
C31_OverrideIsForInstallScriptOnly ==
    OverrideSet =>
        /\ installer.pc # "exit"
        /\ installer.probes = <<>>
        /\ installer.pc = "done" => installer.PKG_MGR = installer.AUTARK_PKG_MGR
        /\ ppc = "done" =>
              /\ platform = DetectPlatform(goos, goarch, osRelease, path).info
              /\ probes = DetectPlatform(goos, goarch, osRelease, path).probes
              /\ platform.LinuxDistro = "unknown" =>
                    platform.PackageManager = FirstCandidate(Candidates(goos))

\* the override is zypper on a Debian with apt-get: install.sh has taken
\* zypper without a probe, DetectPlatform has probed apt-get and taken apt
C31_Witness ==
    /\ installer.AUTARK_PKG_MGR = "zypper" /\ installer.pc = "done"
    /\ installer.PKG_MGR = "zypper" /\ installer.probes = <<>>
    /\ ppc = "done" /\ goos = "linux" /\ osRelease.ID = "debian" /\ path = {"apt-get"}
    /\ platform.PackageManager = "apt" /\ probes = <<"apt-get">>

\* checkDocker has not found the docker executable
DockerAbsent ==
    \E k \in DOMAIN log :
        log[k].op = "LookPath" /\ log[k].cmd = "docker" /\ log[k].by = "checkDocker" /\ ~log[k].ok

\* the entries of the log made by the four checks: those before the first
\* repair is called
ChecksOf(l) ==
    LET calls == {k \in DOMAIN l : l[k].op = "Call"}
    IN  IF calls = {} THEN l
        ELSE SubSeq(l, 1, (CHOOSE k \in calls : \A j \in calls : k <= j) - 1)

\* C32: when checkDocker has not found docker, the checks run no docker info,
\* and the result of checkDockerDaemon is not installed, without a version
\* and with the error "docker not installed"
C32_AbsentRuntimeSkipsLiveness ==
    DockerAbsent =>
        /\ \A k \in DOMAIN ChecksOf(log) : log[k] \notin {DockerInfo(TRUE), DockerInfo(FALSE)}
        /\ Len(results) >= 4 =>
              dockerDaemonResult = [Name |-> "docker daemon", Installed |-> FALSE,
                                    Version |-> "", Error |-> "docker not installed"]

\* the four checks are made, docker was not found, and the log of the checks
\* ends with the failed lookup
C32_Witness ==
    /\ DockerAbsent /\ pc = "count" /\ Len(results) = 4
    /\ log[Len(log)] = Ev("LookPath", "docker", FALSE, "checkDocker", 0)
    /\ dockerDaemonResult.Error = "docker not installed"

\* the check `by` of the tool has run the tool
RanTool(tool, by) ==
    \E k \in DOMAIN log : log[k].op = "Run" /\ log[k].by = by /\ log[k].cmd = tool \o " --version"

\* the check `by` has not found the executable of the tool
NotOnPath(tool, by) ==
    \E k \in DOMAIN log : log[k].op = "LookPath" /\ log[k].by = by /\ log[k].cmd = tool /\ ~log[k].ok

\* C33: checkGit and checkDocker do not run a tool whose executable is not
\* found, and their result is then not installed and without an error; a
\* result that is installed has no error and has a version
C33_MissingIsDataInstalledHasVersion ==
    /\ NotOnPath("git", "checkGit") =>
          /\ ~RanTool("git", "checkGit")
          /\ Len(results) >= 2 => ~gitResult.Installed /\ gitResult.Error = ""
    /\ NotOnPath("docker", "checkDocker") =>
          /\ ~RanTool("docker", "checkDocker")
          /\ Len(results) >= 3 => ~dockerResult.Installed /\ dockerResult.Error = ""
    /\ \A i \in DOMAIN results :
          results[i].Installed => results[i].Error = "" /\ results[i].Version # ""

\* what the operator typed on a line: the line trimmed and in lower case
Typed(in) == TrimSpace(ToLower(in.text))

\* a line that is an answer: yes, no, nothing, or the end of the input
IsAnswer(in) ==
    in.err \/ Typed(in) \in {<<"y">>, <<"y","e","s">>, <<"n">>, <<"n","o">>, <<>>}

\* C34: PromptYesNo returns on the first line that is an answer and goes
\* round again on every other line; it returns true for y and yes, false for
\* n and no, and its default for an empty line and for a read error
C34_PromptYesNoReturnsTrueForYes ==
    /\ \A k \in 1..(Len(prompt.read) - 1) : ~IsAnswer(prompt.read[k])
    /\ prompt.read # <<>> => (prompt.done <=> IsAnswer(prompt.read[Len(prompt.read)]))
    /\ prompt.done =>
          LET in == prompt.read[Len(prompt.read)]
          IN  prompt.value =
                  IF in.err \/ Typed(in) = <<>> THEN prompt.defaultYes
                  ELSE Typed(in) \in {<<"y">>, <<"y","e","s">>}

\* the status text without the blanks around it begins with u or U and then
\* p or P
BeginsWithUp(text) ==
    \E i \in DOMAIN text :
        /\ \A j \in 1..(i - 1) : text[j] \in Whitespace
        /\ text[i] \in {"u", "U"}
        /\ i + 1 <= Len(text) /\ text[i + 1] \in {"p", "P"}

\* the text is nothing but blanks
IsBlank(text) == \A i \in DOMAIN text : text[i] \in Whitespace

\* the command was run by the check, with the given success
CheckRan(cmd, ok) == \E k \in DOMAIN log : log[k].op = "Run" /\ log[k].cmd = cmd /\ log[k].ok = ok

\* what checkRegistryRunning has returned
RunningResult == log[Len(log)]

\* C35: checkRegistryRunning returns true exactly when docker is found, the
\* daemon answers, docker ps succeeds and the status begins with "up" in
\* either case after trimming; a blank status returns false without an
\* error; docker not found and a daemon that does not answer return an error
C35_RunningIsPrefixUp ==
    pc = "checked" =>
        /\ RunningResult.op = "Return"
        /\ RunningResult.ok <=>
              /\ CheckRan("docker ps --filter name=autark-registry --format {{.Status}}", TRUE)
              /\ BeginsWithUp(container.out)
        /\ RunningResult.ok => RunningResult.cmd = "running"
        /\ CheckRan("docker ps --filter name=autark-registry --format {{.Status}}", TRUE)
              /\ IsBlank(container.out) => RunningResult.cmd = "not running"
        /\ log[1] = Ev("LookPath", "docker", FALSE, "checkRegistryRunning", 0)
              => RunningResult.cmd = "error" /\ Len(log) = 2
        /\ CheckRan("docker info", FALSE) => RunningResult.cmd = "error" /\ Len(log) = 3
        /\ RunningResult.cmd \in {"running", "not running"} =>
              /\ CheckRan("docker info", TRUE)
              /\ CheckRan("docker ps --filter name=autark-registry --format {{.Status}}", TRUE)

\* a paused container has been reported as running
C35_Witness ==
    /\ pc = "checked"
    /\ container.out = <<"U","p"," ","2"," ","h","o","u","r","s"," ","(","P","a","u","s","e","d",")","\n">>
    /\ RunningResult = Ev("Return", "running", TRUE, "checkRegistryRunning", 0)

\* the commands of the Linux SSH procedures that enable or start the service
EnableCommands ==
    {"systemctl enable --now ssh", "systemctl enable --now sshd", "rc-update add sshd",
     "rc-update add sshd default", "service sshd start", "ln -s /etc/sv/sshd /var/service/"}

\* the commands run by the SSH install procedure
SSHRuns == {k \in DOMAIN log : log[k].op = "Run" /\ log[k].by \in SSHProcedures}

\* the reads and writes of sshd_config by configureSSHPort
Rewrites == {k \in DOMAIN log : log[k].by = "configureSSHPort"}

\* C36: on Linux, configureSSHPort is called only after the package install
\* commands of the procedure have succeeded and before any command that
\* enables or starts the service; after a rewrite that failed the procedure
\* is still in progress at such a command
C36_RewriteBetweenInstallAndStart ==
    platform.OS = "linux" =>
        /\ \A k \in Rewrites :
              /\ \E j \in SSHRuns : j < k
              /\ \A j \in SSHRuns :
                    IF j < k THEN log[j].ok /\ log[j].cmd \notin EnableCommands
                    ELSE log[j].cmd \in EnableCommands
              /\ k = Len(log) /\ (~log[k].ok \/ log[k].op = "WriteFile") =>
                    /\ pc = "sshStep" /\ exitCode = 0
                    /\ proc.steps[step].cmd \in EnableCommands
        /\ pc = "sshStep" /\ proc.steps[step].op = "Call" =>
              /\ Len(log) \in SSHRuns
              /\ log[Len(log)].ok /\ log[Len(log)].cmd \notin EnableCommands
              /\ step < Len(proc.steps)
              /\ proc.steps[step + 1].cmd \in EnableCommands

\* the write of sshd_config has failed and the installation is reported as
\* successful
C36_Witness ==
    /\ platform.OS = "linux"
    /\ \E k \in Rewrites : log[k].op = "WriteFile" /\ ~log[k].ok
    /\ SSHInstalled

\* the lines of old that new does not have at the same place
ChangedLines(old, new) == {j \in DOMAIN old : j \notin DOMAIN new \/ new[j] # old[j]}

\* C37: a rewrite for a port other than 22 that succeeds either changes
\* nothing but the first line that starts with 'Port ' or '#Port ' after
\* trimming, or adds one line and keeps all the lines there were; a second
\* rewrite of the file it leaves, for the same port, leaves the same file
C37_RewriteIsIdempotentAndLocal ==
    [][ConfiguredNow /\ sshPort # 22 =>
         LET old   == sshdConfig
             new   == sshdConfig'
             first == FirstLine(old, IsPortLine)
         IN  /\ \/ /\ Len(new) = Len(old)
                   /\ first # 0
                   /\ ChangedLines(old, new) \subseteq {first}
                \/ /\ Len(new) = Len(old) + 1
                   /\ first = 0
                   /\ \E at \in DOMAIN new :
                         \A j \in DOMAIN old : old[j] = new[IF j < at THEN j ELSE j + 1]
             /\ FirstLine(new, IsPortLine) # 0
             /\ new[FirstLine(new, IsPortLine)] = PortLine(sshPort)
             /\ rewritePort(new, sshPort, 1) = new
             /\ \A r \in configureSSHPort(sshPort, new) : r.ok => r.file = new]_vars

\* a file whose second line was an indented or commented-out Port line, with
\* an active one after it, was rewritten for port 2222
C37_Witness ==
    /\ pc = "configured" /\ sshPort = 2222
    /\ Len(log) = 2 /\ log[2].ok
    /\ sshdConfig = << <<>>, PortLine(2222), <<"P","o","r","t"," ","2","2">> >>

\* the families ID_LIKE is matched against, in their order, each with the
\* names that stand for it
LikePrecedence ==
    << [family |-> "debian", names |-> {<<"d","e","b","i","a","n">>, <<"u","b","u","n","t","u">>}],
       [family |-> "fedora", names |-> {<<"f","e","d","o","r","a">>, <<"r","h","e","l">>}],
       [family |-> "arch", names |-> {<<"a","r","c","h">>}],
       [family |-> "opensuse", names |-> {<<"s","u","s","e">>}] >>

\* the places of LikePrecedence that ID_LIKE matches
LikeMatches == {i \in DOMAIN LikePrecedence : \E n \in LikePrecedence[i].names : Like(n)}

\* C38: for an ID that is not in the table the family is that of the first
\* place of the precedence that ID_LIKE matches, and unknown when it matches
\* none; an ID_LIKE that names ubuntu gives debian
C38_IdLikePrecedence ==
    FamilyResolved /\ osRelease.ID \notin DOMAIN FamilyTable =>
        /\ LikeMatches = {} => platform.LinuxDistro = "unknown"
        /\ \A i \in LikeMatches :
              (\A j \in LikeMatches : i <= j) => platform.LinuxDistro = LikePrecedence[i].family
        /\ Like(<<"u","b","u","n","t","u">>) => platform.LinuxDistro = "debian"

\* an unrecognized ID whose ID_LIKE names arch and suse: the family is arch
C38_Witness ==
    /\ FamilyResolved /\ osRelease.ID = "nixos"
    /\ Cardinality(LikeMatches) = 2
    /\ Like(<<"a","r","c","h">>) /\ Like(<<"s","u","s","e">>)
    /\ platform.LinuxDistro = "arch"

\* every call of utils.IsRoot of the run answered no, and the privilege check
\* was one of them
Unprivileged ==
    /\ \E k \in DOMAIN log : log[k].op = "IsRoot" /\ log[k].by = "checkRootPrivileges"
    /\ \A k \in DOMAIN log : log[k].op = "IsRoot" => ~log[k].ok

\* the four checks were made and counted
Counted == Len(results) = 4 /\ pc \notin {"checkRoot", "checkGit", "checkDocker", "checkDockerDaemon", "count"}

\* the places of the outcomes of a repair of target
OutcomesOf(target) == {k \in DOMAIN outcomes : outcomes[k].target = target}

\* C39: a run of doctor without elevated privileges never exits 0, with or
\* without --repair, even when git, docker and the daemon are fine; when
\* docker is absent the daemon check is an issue too, so that at least 2
\* issues are counted, and the daemon repair comes after the docker repair
C39_UnprivilegedNeverExitsZero ==
    /\ Unprivileged /\ Len(results) >= 1 => ~rootResult.Installed
    /\ Unprivileged /\ pc = "done" => exitCode = 1 /\ outcomes = <<>>
    /\ Len(results) = 4 /\ ~dockerResult.Installed => ~dockerDaemonResult.Installed
    /\ Counted /\ ~dockerResult.Installed => issues >= 2
    /\ Counted /\ Unprivileged => issues >= 1
    /\ Counted /\ ~dockerResult.Installed =>
          /\ \A k \in OutcomesOf("docker daemon") : \E j \in OutcomesOf("docker") : j < k
          /\ \A k \in DOMAIN log :
                log[k].cmd = "ensureDockerDaemonRunning" =>
                   \E j \in 1..(k - 1) : log[j].cmd = "repairDocker"
          /\ pc \in {"finish"} \/ (pc = "done" /\ outcomes # <<>>) =>
                OutcomesOf("docker") # {} /\ log[Len(log)].cmd # "repairDocker"
                /\ \E k \in DOMAIN log : log[k].cmd = "ensureDockerDaemonRunning"

\* a run without privileges that found git, docker and the daemon fine: one
\* issue was counted and the exit code is 1
C39_Witness ==
    /\ Unprivileged /\ pc = "done" /\ exitCode = 1
    /\ Len(results) = 4 /\ issues = 1
    /\ gitResult.Installed /\ dockerResult.Installed /\ dockerDaemonResult.Installed

\* doctor runs on Linux with a family that is not recognized
UnknownFamily == platform.OS = "linux" /\ platform.LinuxDistro = "unknown"

\* the places of the log where a repair was called
CallsOf(repairName) == {k \in DOMAIN log : log[k].op = "Call" /\ log[k].cmd = repairName}

\* the commands a repair procedure ran
RunsBy(procName) == {k \in DOMAIN log : log[k].op = "Run" /\ log[k].by = procName}

\* the docker repair of an unknown family ran `snap install docker` for snap
\* and, for any other manager, returned an error and ran nothing
DockerDispatchOnlyForSnap ==
    UnknownFamily /\ OutcomesOf("docker") # {} =>
        IF platform.PackageManager = "snap"
        THEN \A k \in CallsOf("repairDocker") :
                /\ k < Len(log)
                /\ log[k + 1] = [log[k + 1] EXCEPT !.op = "Run", !.cmd = "snap install docker",
                                                   !.by = "installDockerByPackageManager"]
        ELSE /\ RunsBy("installDockerByPackageManager") = {}
             /\ \A k \in OutcomesOf("docker") : ~outcomes[k].ok

\* the git repair ran the install command of the manager
GitRepairInvokes(pm) ==
    \A k \in CallsOf("repairGit") :
       /\ k < Len(log)
       /\ log[k + 1].op = "Run" /\ log[k + 1].by = "repairGit"
       /\ log[k + 1].cmd = GitInstallCommand(pm) /\ log[k + 1].cmd # ""

\* C40: on Linux with an unknown family the docker repair runs an install
\* command only when the package manager is snap; for every other manager
\* that was found it returns an error and runs nothing, while the git repair
\* of the same run does run that manager
C40_DockerOnlySnapGitEveryManager ==
    /\ DockerDispatchOnlyForSnap
    /\ UnknownFamily /\ platform.PackageManager \notin {"snap", "unknown"} =>
          GitRepairInvokes(platform.PackageManager)

====
